---- MODULE Spec2Model ----
(***************************************************************************)
(* Battle-log analytics engine of Pokemon-battle-ai: the type registry,    *)
(* the matchup scorer, the timeline analyzer, the roster summarizer and    *)
(* the batch feature extraction loops.                                     *)
(*                                                                         *)
(* Conventions used throughout:                                            *)
(*  - a damage multiplier is held in halves: 0.0 -> 0, 0.5 -> 1, 1.0 -> 2,  *)
(*    2.0 -> 4, so that every comparison of the code is an integer one;    *)
(*  - a mean is an exact rational <<num, den>> in lowest terms, den > 0;   *)
(*    a standard deviation is held as its square (the variance);           *)
(*  - Python's None is the string "None" where the value is a name, and a  *)
(*    missing or falsy entry field is "" (species) or 0 (level, hp);       *)
(*  - a call that raises returns a record with raised = TRUE.              *)
(***************************************************************************)
EXTENDS Integers, Sequences, FiniteSets, TLC

VARIABLES
    reg_call,   \* the registry accessor called last, with its arguments
    reg_ret,    \* what that call returned
    type_lists, \* the list objects POKEMON_TYPES holds, by species
    POKEMON_DATA_AVAILABLE, \* whether the import of pokemon_data succeeded
    mu_team1,   \* MatchupScorer: the species list given as team1_species
    mu_team2,   \* MatchupScorer: the species list given as team2_species
    mu_fwd,     \* calculate_team_type_advantage(team1, team2), once called
    mu_rev,     \* calculate_team_type_advantage(team2, team1), once called
    tl_turns,   \* TimelineAnalyzer: the turns read so far, the current one last
    tl_pc,      \* "turns": between turns; "events": inside a turn; "done"
    tl_i,       \* number of events of the current turn already processed
    tl_acc,     \* the local counters of calculate_battle_metrics
    tl_result,  \* the dict calculate_battle_metrics returned, once it has
    fx_battle,  \* FeatureAssembler: the match record given to the extractors
    fx_pre,     \* extract_pre_battle_features(battle), once called
    fx_other_battle, \* the match record of the latest other call
    fx_other,   \* the latest other call on a related record, and its outcome
    fx_again,   \* a repeated call on the match record, and its outcome
    corpus,     \* Batch jobs: the list of parsed match records
    ml_i,       \* extract_battle_features: number of records processed
    ml_features_list, \* extract_battle_features: features_list
    ml_status,  \* "running", "returned", or "raised": an exception left the call
    training,   \* what prepare_data made of the returned frame, once called
    fe_i,       \* BattleDataProcessor.extract_features: records processed
    fe_features, \* BattleDataProcessor.extract_features: features
    fe_status,  \* "running", "returned" or "raised"
    eda_i,      \* the pre-battle extraction loop: records processed
    eda_battle_features, \* the pre-battle extraction loop: battle_features
    eda_status, \* "running", "finished" or "raised"
    battles_cache, \* BattleDataProcessor.battles_cache, shared by all calls
    wk_match,   \* Workers: the index of the match each worker converts, or 0
    wk_pc,      \* each worker's position in _extract_battle_features
    wk_local,   \* the locals of each worker's call
    wk_out,     \* the outcome of the conversion of each match, once finished
    game_sessions, \* app.py: the sessions in game_sessions, by session id
    clock,      \* the server's clock, what datetime.now() reads
    served,     \* the number of requests the server has answered
    resp,       \* the answer to the last request
    ended       \* the session ids for which end_game answered 200

regVars == <<reg_call, reg_ret, type_lists>>
muVars == <<mu_team1, mu_team2, mu_fwd, mu_rev>>
tlVars == <<tl_turns, tl_pc, tl_i, tl_acc, tl_result>>
fxVars == <<fx_battle, fx_pre, fx_other_battle, fx_other, fx_again>>
mlVars == <<ml_i, ml_features_list, ml_status, training>>
feVars == <<fe_i, fe_features, fe_status>>
edaVars == <<eda_i, eda_battle_features, eda_status>>
batchVars == <<corpus, mlVars, feVars, edaVars>>
wkVars == <<battles_cache, wk_match, wk_pc, wk_local, wk_out>>
webVars == <<game_sessions, clock, served, resp, ended>>
vars == <<regVars, POKEMON_DATA_AVAILABLE, muVars, tlVars, fxVars, batchVars, wkVars, webVars>>

(***************************************************************************)
(* TypeRegistry: src/src/data/pokemon_data.py                              *)
(***************************************************************************)

\* The 18 elemental types that occur in TYPE_EFFECTIVENESS.
TypeNames ==
    {"Normal", "Fire", "Water", "Electric", "Grass", "Ice", "Fighting",
     "Poison", "Ground", "Flying", "Psychic", "Bug", "Rock", "Ghost",
     "Dragon", "Dark", "Steel", "Fairy"}

\* A type name that is in no table (a new or misspelt type).
UnknownType == "Stellar"

\* Multipliers in halves.
Immune == 0
Resisted == 1
Neutral == 2
SuperEffective == 4

\* TYPE_EFFECTIVENESS, all 120 entries, values in halves.
TYPE_EFFECTIVENESS ==
    <<"Normal", "Rock">> :> 1
    @@ <<"Normal", "Ghost">> :> 0
    @@ <<"Normal", "Steel">> :> 1
    @@ <<"Fire", "Fire">> :> 1
    @@ <<"Fire", "Water">> :> 1
    @@ <<"Fire", "Grass">> :> 4
    @@ <<"Fire", "Ice">> :> 4
    @@ <<"Fire", "Bug">> :> 4
    @@ <<"Fire", "Rock">> :> 1
    @@ <<"Fire", "Dragon">> :> 1
    @@ <<"Fire", "Steel">> :> 4
    @@ <<"Water", "Fire">> :> 4
    @@ <<"Water", "Water">> :> 1
    @@ <<"Water", "Grass">> :> 1
    @@ <<"Water", "Ground">> :> 4
    @@ <<"Water", "Rock">> :> 4
    @@ <<"Water", "Dragon">> :> 1
    @@ <<"Electric", "Water">> :> 4
    @@ <<"Electric", "Electric">> :> 1
    @@ <<"Electric", "Grass">> :> 1
    @@ <<"Electric", "Ground">> :> 0
    @@ <<"Electric", "Flying">> :> 4
    @@ <<"Electric", "Dragon">> :> 1
    @@ <<"Grass", "Fire">> :> 1
    @@ <<"Grass", "Water">> :> 4
    @@ <<"Grass", "Grass">> :> 1
    @@ <<"Grass", "Poison">> :> 1
    @@ <<"Grass", "Ground">> :> 4
    @@ <<"Grass", "Flying">> :> 1
    @@ <<"Grass", "Bug">> :> 1
    @@ <<"Grass", "Rock">> :> 4
    @@ <<"Grass", "Dragon">> :> 1
    @@ <<"Grass", "Steel">> :> 1
    @@ <<"Ice", "Fire">> :> 1
    @@ <<"Ice", "Water">> :> 1
    @@ <<"Ice", "Grass">> :> 4
    @@ <<"Ice", "Ice">> :> 1
    @@ <<"Ice", "Ground">> :> 4
    @@ <<"Ice", "Flying">> :> 4
    @@ <<"Ice", "Dragon">> :> 4
    @@ <<"Ice", "Steel">> :> 1
    @@ <<"Fighting", "Normal">> :> 4
    @@ <<"Fighting", "Ice">> :> 4
    @@ <<"Fighting", "Poison">> :> 1
    @@ <<"Fighting", "Flying">> :> 1
    @@ <<"Fighting", "Psychic">> :> 1
    @@ <<"Fighting", "Bug">> :> 1
    @@ <<"Fighting", "Rock">> :> 4
    @@ <<"Fighting", "Ghost">> :> 0
    @@ <<"Fighting", "Dark">> :> 4
    @@ <<"Fighting", "Steel">> :> 4
    @@ <<"Fighting", "Fairy">> :> 1
    @@ <<"Poison", "Grass">> :> 4
    @@ <<"Poison", "Poison">> :> 1
    @@ <<"Poison", "Ground">> :> 1
    @@ <<"Poison", "Rock">> :> 1
    @@ <<"Poison", "Ghost">> :> 1
    @@ <<"Poison", "Steel">> :> 0
    @@ <<"Poison", "Fairy">> :> 4
    @@ <<"Ground", "Fire">> :> 4
    @@ <<"Ground", "Electric">> :> 4
    @@ <<"Ground", "Grass">> :> 1
    @@ <<"Ground", "Poison">> :> 4
    @@ <<"Ground", "Flying">> :> 0
    @@ <<"Ground", "Bug">> :> 1
    @@ <<"Ground", "Rock">> :> 4
    @@ <<"Ground", "Steel">> :> 4
    @@ <<"Flying", "Electric">> :> 1
    @@ <<"Flying", "Grass">> :> 4
    @@ <<"Flying", "Fighting">> :> 4
    @@ <<"Flying", "Bug">> :> 4
    @@ <<"Flying", "Rock">> :> 1
    @@ <<"Flying", "Steel">> :> 1
    @@ <<"Psychic", "Fighting">> :> 4
    @@ <<"Psychic", "Poison">> :> 4
    @@ <<"Psychic", "Psychic">> :> 1
    @@ <<"Psychic", "Dark">> :> 0
    @@ <<"Psychic", "Steel">> :> 1
    @@ <<"Bug", "Fire">> :> 1
    @@ <<"Bug", "Grass">> :> 4
    @@ <<"Bug", "Fighting">> :> 1
    @@ <<"Bug", "Poison">> :> 1
    @@ <<"Bug", "Flying">> :> 1
    @@ <<"Bug", "Psychic">> :> 4
    @@ <<"Bug", "Ghost">> :> 1
    @@ <<"Bug", "Dark">> :> 4
    @@ <<"Bug", "Steel">> :> 1
    @@ <<"Bug", "Fairy">> :> 1
    @@ <<"Rock", "Fire">> :> 4
    @@ <<"Rock", "Ice">> :> 4
    @@ <<"Rock", "Fighting">> :> 1
    @@ <<"Rock", "Ground">> :> 1
    @@ <<"Rock", "Flying">> :> 4
    @@ <<"Rock", "Bug">> :> 4
    @@ <<"Rock", "Steel">> :> 1
    @@ <<"Ghost", "Normal">> :> 0
    @@ <<"Ghost", "Psychic">> :> 4
    @@ <<"Ghost", "Ghost">> :> 4
    @@ <<"Ghost", "Dark">> :> 1
    @@ <<"Dragon", "Dragon">> :> 4
    @@ <<"Dragon", "Steel">> :> 1
    @@ <<"Dragon", "Fairy">> :> 0
    @@ <<"Dark", "Fighting">> :> 1
    @@ <<"Dark", "Psychic">> :> 4
    @@ <<"Dark", "Ghost">> :> 4
    @@ <<"Dark", "Dark">> :> 1
    @@ <<"Dark", "Fairy">> :> 1
    @@ <<"Steel", "Fire">> :> 1
    @@ <<"Steel", "Water">> :> 1
    @@ <<"Steel", "Electric">> :> 1
    @@ <<"Steel", "Ice">> :> 4
    @@ <<"Steel", "Rock">> :> 4
    @@ <<"Steel", "Steel">> :> 1
    @@ <<"Steel", "Fairy">> :> 4
    @@ <<"Fairy", "Fire">> :> 1
    @@ <<"Fairy", "Fighting">> :> 4
    @@ <<"Fairy", "Poison">> :> 1
    @@ <<"Fairy", "Dragon">> :> 4
    @@ <<"Fairy", "Dark">> :> 4
    @@ <<"Fairy", "Steel">> :> 1

\* POKEMON_TYPES, the entries of the species used below.
POKEMON_TYPES ==
    "Charizard" :> <<"Fire", "Flying">>
    @@ "Blastoise" :> <<"Water">>
    @@ "Mewtwo" :> <<"Psychic">>
    @@ "Mew" :> <<"Psychic">>
    @@ "Garchomp" :> <<"Dragon", "Ground">>
    @@ "Gengar" :> <<"Ghost", "Poison">>
    @@ "Snorlax" :> <<"Normal">>
    @@ "Rillaboom" :> <<"Grass">>
    @@ "Cinderace" :> <<"Fire">>
    @@ "Flareon" :> <<"Fire">>

\* POKEMON_BST, the entries of the same species ("Mew" has types and no BST).
POKEMON_BST ==
    "Charizard" :> 534
    @@ "Blastoise" :> 530
    @@ "Mewtwo" :> 680
    @@ "Garchomp" :> 600
    @@ "Gengar" :> 500
    @@ "Snorlax" :> 540
    @@ "Rillaboom" :> 530
    @@ "Cinderace" :> 530
    @@ "Flareon" :> 525

\* A species name that is in no table.
UnknownSpecies == "MissingNo"

DefaultBst == 400

\* get_pokemon_types: POKEMON_TYPES.get(species, ['Normal'])
get_pokemon_types(species) ==
    IF species \in DOMAIN POKEMON_TYPES THEN POKEMON_TYPES[species] ELSE <<"Normal">>

\* A lookup whose default is 0.
get_pokemon_bst_zero(species) ==
    IF species \in DOMAIN POKEMON_BST THEN POKEMON_BST[species] ELSE 0

\* get_pokemon_bst: POKEMON_BST.get(species, 400)
get_pokemon_bst(species) ==
    IF species \in DOMAIN POKEMON_BST THEN POKEMON_BST[species] ELSE DefaultBst

\* A lookup that reads the table with attacker and defender exchanged.
get_type_effectiveness_swapped(attacking_type, defending_type) ==
    IF <<defending_type, attacking_type>> \in DOMAIN TYPE_EFFECTIVENESS
    THEN TYPE_EFFECTIVENESS[<<defending_type, attacking_type>>]
    ELSE Neutral

\* get_type_effectiveness: TYPE_EFFECTIVENESS.get((attacking, defending), 1.0)
get_type_effectiveness(attacking_type, defending_type) ==
    IF <<attacking_type, defending_type>> \in DOMAIN TYPE_EFFECTIVENESS
    THEN TYPE_EFFECTIVENESS[<<attacking_type, defending_type>>]
    ELSE Neutral

Max(S) == CHOOSE x \in S : \A y \in S : y <= x

\* The matchup taken from the defender's side.
calculate_matchup_score_defensive(attacker_types, defender_types) ==
    Max({Neutral} \cup
        {get_type_effectiveness(defender_types[j], attacker_types[i]) :
            i \in DOMAIN attacker_types, j \in DOMAIN defender_types})

\* calculate_matchup_score: max_effectiveness starts at 1.0 and is raised to
\* every pair's effectiveness that exceeds it.
calculate_matchup_score(attacker_types, defender_types) ==
    Max({Neutral} \cup
        {get_type_effectiveness(attacker_types[i], defender_types[j]) :
            i \in DOMAIN attacker_types, j \in DOMAIN defender_types})

(***************************************************************************)
(* MatchupScorer: src/notebooks/EDA_notebook_ready.py                      *)
(***************************************************************************)

\* The ordered pairs (member of team1, member of team2) the two loops visit.
TeamPairs(team1_species, team2_species) ==
    (DOMAIN team1_species) \X (DOMAIN team2_species)

\* The matchup of attacker species a against defender species d.
SpeciesMatchup(a, d) ==
    calculate_matchup_score(get_pokemon_types(a), get_pokemon_types(d))

\* A scorer whose score leaves out the second side's term.
calculate_team_type_advantage_one_sided(team1_species, team2_species) ==
    LET pairs == TeamPairs(team1_species, team2_species)
        m12(p) == SpeciesMatchup(team1_species[p[1]], team2_species[p[2]])
        m21(p) == SpeciesMatchup(team2_species[p[2]], team1_species[p[1]])
        p1_super_effective == Cardinality({p \in pairs : m12(p) >= SuperEffective})
        p1_resisted == Cardinality({p \in pairs :
                          ~(m12(p) >= SuperEffective) /\ m12(p) <= Resisted})
        p2_super_effective == Cardinality({p \in pairs : m21(p) >= SuperEffective})
        p2_resisted == Cardinality({p \in pairs :
                          ~(m21(p) >= SuperEffective) /\ m21(p) <= Resisted})
    IN  [type_advantage_score |-> p1_super_effective - p1_resisted,
         p1_super_effective_count |-> p1_super_effective,
         p2_super_effective_count |-> p2_super_effective,
         p1_resisted_count |-> p1_resisted,
         p2_resisted_count |-> p2_resisted]

\* A scorer that counts pairs of types where the code counts pairs of
\* species.
calculate_team_type_advantage_per_type(team1_species, team2_species) ==
    IF ~POKEMON_DATA_AVAILABLE
    THEN [type_advantage_score |-> 0,
          p1_super_effective_count |-> 0,
          p2_super_effective_count |-> 0,
          p1_resisted_count |-> 0,
          p2_resisted_count |-> 0]
    ELSE
    LET types1(i) == get_pokemon_types(team1_species[i])
        types2(j) == get_pokemon_types(team2_species[j])
        cells == UNION {{<<i, j, a, b>> : a \in DOMAIN types1(i), b \in DOMAIN types2(j)} :
                           <<i, j>> \in TeamPairs(team1_species, team2_species)}
        e12(c) == get_type_effectiveness(types1(c[1])[c[3]], types2(c[2])[c[4]])
        e21(c) == get_type_effectiveness(types2(c[2])[c[4]], types1(c[1])[c[3]])
        p1_super_effective == Cardinality({c \in cells : e12(c) >= SuperEffective})
        p1_resisted == Cardinality({c \in cells : e12(c) <= Resisted})
        p2_super_effective == Cardinality({c \in cells : e21(c) >= SuperEffective})
        p2_resisted == Cardinality({c \in cells : e21(c) <= Resisted})
    IN  [type_advantage_score |->
            (p1_super_effective - p1_resisted) - (p2_super_effective - p2_resisted),
         p1_super_effective_count |-> p1_super_effective,
         p2_super_effective_count |-> p2_super_effective,
         p1_resisted_count |-> p1_resisted,
         p2_resisted_count |-> p2_resisted]

\* calculate_team_type_advantage
calculate_team_type_advantage(team1_species, team2_species) ==
    IF ~POKEMON_DATA_AVAILABLE
    THEN [type_advantage_score |-> 0,
          p1_super_effective_count |-> 0,
          p2_super_effective_count |-> 0,
          p1_resisted_count |-> 0,
          p2_resisted_count |-> 0]
    ELSE
    LET pairs == TeamPairs(team1_species, team2_species)
        m12(p) == SpeciesMatchup(team1_species[p[1]], team2_species[p[2]])
        m21(p) == SpeciesMatchup(team2_species[p[2]], team1_species[p[1]])
        p1_super_effective == Cardinality({p \in pairs : m12(p) >= SuperEffective})
        p1_resisted == Cardinality({p \in pairs :
                          ~(m12(p) >= SuperEffective) /\ m12(p) <= Resisted})
        p2_super_effective == Cardinality({p \in pairs : m21(p) >= SuperEffective})
        p2_resisted == Cardinality({p \in pairs :
                          ~(m21(p) >= SuperEffective) /\ m21(p) <= Resisted})
    IN  [type_advantage_score |->
            (p1_super_effective - p1_resisted) - (p2_super_effective - p2_resisted),
         p1_super_effective_count |-> p1_super_effective,
         p2_super_effective_count |-> p2_super_effective,
         p1_resisted_count |-> p1_resisted,
         p2_resisted_count |-> p2_resisted]

(***************************************************************************)
(* Exact rationals for Python's true division and numpy's mean.            *)
(***************************************************************************)

Abs(n) == IF n < 0 THEN 0 - n ELSE n

RECURSIVE GCD(_, _)
GCD(a, b) == IF b = 0 THEN a ELSE GCD(b, a % b)

\* What a division by zero leaves in place of a quotient: ZeroDivisionError.
DivisionByZero == <<0, 0>>

\* n // d: the quotient without its fraction.
Rat_floor(n, d) ==
    IF d = 0 THEN DivisionByZero ELSE <<n \div d, 1>>

\* n / d for d >= 0, in lowest terms.
Rat(n, d) ==
    IF d = 0 THEN DivisionByZero
    ELSE LET g == GCD(Abs(n), d) IN <<n \div g, d \div g>>

RatZero == <<0, 1>>

\* a - b
RatSub(a, b) == Rat(a[1] * b[2] - b[1] * a[2], a[2] * b[2])

RatNeg(a) == <<0 - a[1], a[2]>>

(***************************************************************************)
(* Strings of the event `type` field, as sequences of characters, so that  *)
(* str.lower() and the substring test `in` are computed, not assumed.      *)
(***************************************************************************)

UpperToLower ==
    "A" :> "a" @@ "B" :> "b" @@ "C" :> "c" @@ "D" :> "d" @@ "E" :> "e"
    @@ "F" :> "f" @@ "G" :> "g" @@ "H" :> "h" @@ "I" :> "i" @@ "J" :> "j"
    @@ "K" :> "k" @@ "L" :> "l" @@ "M" :> "m" @@ "N" :> "n" @@ "O" :> "o"
    @@ "P" :> "p" @@ "Q" :> "q" @@ "R" :> "r" @@ "S" :> "s" @@ "T" :> "t"
    @@ "U" :> "u" @@ "V" :> "v" @@ "W" :> "w" @@ "X" :> "x" @@ "Y" :> "y"
    @@ "Z" :> "z"

\* str.lower()
Lower(str) ==
    [k \in DOMAIN str |->
        IF str[k] \in DOMAIN UpperToLower THEN UpperToLower[str[k]] ELSE str[k]]

\* sub in str
Contains(str, sub) ==
    \E k \in 1..(Len(str) - Len(sub) + 1) : SubSeq(str, k, k + Len(sub) - 1) = sub

STR_MOVE == <<"m", "o", "v", "e">>
STR_SWITCH == <<"s", "w", "i", "t", "c", "h">>
STR_DAMAGE == <<"d", "a", "m", "a", "g", "e">>
STR_HEAL == <<"h", "e", "a", "l">>
STR_FAINT == <<"f", "a", "i", "n", "t">>
STR_EMPTY == <<>>

\* Python's None where a string may stand; no string of characters equals it.
NONE == <<"None">>

\* An event dict: has_type says whether it has a 'type' key.
Event(type) == [has_type |-> TRUE, type |-> type]
EventWithoutType == [has_type |-> FALSE, type |-> STR_EMPTY]

\* A lookup whose default is 'move' instead of the empty string.
GetTypeOrEmpty_move(event) == IF event.has_type THEN event.type ELSE STR_MOVE

\* event.get('type', '')
GetTypeOrEmpty(event) == IF event.has_type THEN event.type ELSE STR_EMPTY

\* e.get('type')
GetTypeOrNone(event) == IF event.has_type THEN event.type ELSE NONE

(***************************************************************************)
(* TimelineAnalyzer: calculate_battle_metrics of                            *)
(* src/notebooks/ML_Training_Advanced.py.  A turn is the list its          *)
(* turn.get('events', []) yields.                                          *)
(***************************************************************************)

EarlyTurns == 3
MidTurnsEnd == 8
MidTurns == 5

Min(S) == CHOOSE x \in S : \A y \in S : x <= y

\* The locals of calculate_battle_metrics before the loop (lines 262-280).
InitialCounters ==
    [total_events |-> 0, move_events |-> 0, switch_events |-> 0,
     damage_events |-> 0, effect_events |-> 0, heal_events |-> 0,
     status_events |-> 0,
     early_game_events |-> 0, mid_game_events |-> 0, late_game_events |-> 0,
     consecutive_moves |-> 0, consecutive_switches |-> 0,
     last_action_type |-> NONE, current_streak |-> 0]

\* A turn loop head whose phase tests are <= where the code has <.
TurnHead_inclusive(acc, turn_idx, turn_events) ==
    LET turn_event_count == Len(turn_events)
        counted == [acc EXCEPT !.total_events = @ + turn_event_count]
    IN  IF turn_idx <= EarlyTurns
        THEN [counted EXCEPT !.early_game_events = @ + turn_event_count]
        ELSE IF turn_idx <= MidTurnsEnd
        THEN [counted EXCEPT !.mid_game_events = @ + turn_event_count]
        ELSE [counted EXCEPT !.late_game_events = @ + turn_event_count]

\* The head of the turn loop (lines 283-293): the turn's events are counted
\* into total_events and into the phase of the turn's index.
TurnHead(acc, turn_idx, turn_events) ==
    LET turn_event_count == Len(turn_events)
        counted == [acc EXCEPT !.total_events = @ + turn_event_count]
    IN  IF turn_idx < EarlyTurns
        THEN [counted EXCEPT !.early_game_events = @ + turn_event_count]
        ELSE IF turn_idx < MidTurnsEnd
        THEN [counted EXCEPT !.mid_game_events = @ + turn_event_count]
        ELSE [counted EXCEPT !.late_game_events = @ + turn_event_count]

\* A tally whose chain is broken in two: `if 'heal'` where the code has
\* `elif 'heal'`, so that a move, switch or damage event is counted again by
\* the second chain.
Tally_two_chains(acc, event_type) ==
    LET first ==
            IF event_type = STR_MOVE THEN [acc EXCEPT !.move_events = @ + 1]
            ELSE IF event_type = STR_SWITCH THEN [acc EXCEPT !.switch_events = @ + 1]
            ELSE IF Contains(event_type, STR_DAMAGE) THEN [acc EXCEPT !.damage_events = @ + 1]
            ELSE acc
    IN  IF Contains(event_type, STR_HEAL) THEN [first EXCEPT !.heal_events = @ + 1]
        ELSE IF Contains(event_type, STR_FAINT) THEN [first EXCEPT !.status_events = @ + 1]
        ELSE [first EXCEPT !.effect_events = @ + 1]

\* The category tally of one event (lines 297-310).
Tally(acc, event_type) ==
    IF event_type = STR_MOVE THEN [acc EXCEPT !.move_events = @ + 1]
    ELSE IF event_type = STR_SWITCH THEN [acc EXCEPT !.switch_events = @ + 1]
    ELSE IF Contains(event_type, STR_DAMAGE) THEN [acc EXCEPT !.damage_events = @ + 1]
    ELSE IF Contains(event_type, STR_HEAL) THEN [acc EXCEPT !.heal_events = @ + 1]
    ELSE IF Contains(event_type, STR_FAINT) THEN [acc EXCEPT !.status_events = @ + 1]
    ELSE [acc EXCEPT !.effect_events = @ + 1]

\* The flush of the streak that just ended into the maximum of its type
\* (lines 317-320 and 325-328).
Flush(acc) ==
    IF acc.last_action_type = STR_MOVE
    THEN [acc EXCEPT !.consecutive_moves = Max({@, acc.current_streak})]
    ELSE IF acc.last_action_type = STR_SWITCH
    THEN [acc EXCEPT !.consecutive_switches = Max({@, acc.current_streak})]
    ELSE acc

\* A streak tracking that an event other than a move or a switch ends.
Streak_ended_by_others(acc, event_type) ==
    IF event_type \in {STR_MOVE, STR_SWITCH}
    THEN IF event_type = acc.last_action_type
         THEN [acc EXCEPT !.current_streak = @ + 1]
         ELSE [Flush(acc) EXCEPT !.current_streak = 1,
                                 !.last_action_type = event_type]
    ELSE [Flush(acc) EXCEPT !.current_streak = 0, !.last_action_type = NONE]

\* The streak tracking of one event (lines 313-322).
Streak(acc, event_type) ==
    IF event_type \in {STR_MOVE, STR_SWITCH}
    THEN IF event_type = acc.last_action_type
         THEN [acc EXCEPT !.current_streak = @ + 1]
         ELSE [Flush(acc) EXCEPT !.current_streak = 1,
                                 !.last_action_type = event_type]
    ELSE acc

\* The body of the event loop (lines 296-322).
EventStep(acc, event) ==
    LET event_type == Lower(GetTypeOrEmpty(event))
    IN  Streak(Tally(acc, event_type), event_type)

\* A pass that ends without flushing the streak still open.
FinalFlush_dropped(acc) == acc

\* The flush after the loop (lines 325-328).
FinalFlush(acc) == Flush(acc)

RECURSIVE Flatten(_)
Flatten(seqs) == IF seqs = <<>> THEN <<>> ELSE Head(seqs) \o Flatten(Tail(seqs))

\* A divisor that is used as it is.
AtLeastOne_unguarded(n) == n

\* max(n, 1): the guard of every divisor of the returned dict.
AtLeastOne(n) == Max({n, 1})

\* The returned dict (lines 330-349); winner and reason come from the
\* battle's metadata.
BattleMetrics(acc, turns, winner, reason) ==
    LET total_turns == Len(turns)
        events == Flatten(turns)
    IN  [total_turns |-> total_turns,
         winner |-> winner,
         reason |-> reason,
         total_events |-> acc.total_events,
         move_events |-> acc.move_events,
         switch_events |-> acc.switch_events,
         damage_events |-> acc.damage_events,
         heal_events |-> acc.heal_events,
         status_events |-> acc.status_events,
         effect_events |-> acc.effect_events,
         events_per_turn |-> Rat(acc.total_events, AtLeastOne(total_turns)),
         early_game_intensity |->
            Rat(acc.early_game_events, AtLeastOne(Min({total_turns, EarlyTurns}))),
         mid_game_intensity |->
            IF total_turns > EarlyTurns
            THEN Rat(acc.mid_game_events, AtLeastOne(Min({total_turns - EarlyTurns, MidTurns})))
            ELSE RatZero,
         late_game_intensity |->
            IF total_turns > MidTurnsEnd
            THEN Rat(acc.late_game_events, AtLeastOne(total_turns - MidTurnsEnd))
            ELSE RatZero,
         move_switch_ratio |-> Rat(acc.move_events, AtLeastOne(acc.switch_events)),
         consecutive_moves |-> acc.consecutive_moves,
         consecutive_switches |-> acc.consecutive_switches,
         action_diversity |->
            Cardinality({GetTypeOrNone(events[k]) : k \in DOMAIN events})]

RECURSIVE FoldEvents(_, _)
FoldEvents(acc, events) ==
    IF events = <<>> THEN acc ELSE FoldEvents(EventStep(acc, Head(events)), Tail(events))

RECURSIVE FoldTurns(_, _, _)
FoldTurns(acc, turn_idx, turns) ==
    IF turns = <<>> THEN acc
    ELSE FoldTurns(FoldEvents(TurnHead(acc, turn_idx, Head(turns)), Head(turns)),
                   turn_idx + 1, Tail(turns))

\* calculate_battle_metrics as one call: the whole pass over `turns`.
calculate_battle_metrics(turns, winner, reason) ==
    BattleMetrics(FinalFlush(FoldTurns(InitialCounters, 0, turns)), turns, winner, reason)

(***************************************************************************)
(* Match records.  A parsed JSON value that should be a match record:      *)
(*   is_dict   FALSE for a value that is not a dict (JSON null);           *)
(*   keys      the top-level keys the dict has;                            *)
(*   winner, reason   metadata.outcome.winner / .reason ("None": null);    *)
(*   ratings   players.pN.ladder_rating_pre (0: absent);                   *)
(*   teams     team_revelation.teams, a roster per side;                   *)
(*   turns_kind, turns   the value under 'turns': a list of turns, null,   *)
(*             or an int (the flat schema of BattleDataProcessor);         *)
(*   events, flat   the top-level 'events', 'p1', 'p2', 'winner' of the    *)
(*             flat schema.                                                *)
(* A roster is absent from the teams mapping, a list of entries, or null.  *)
(* An entry holds species ("": none), level and base_stats.hp (0: none).   *)
(***************************************************************************)

Pokemon(species, level, hp) == [species |-> species, level |-> level, hp |-> hp]

RosterList(members) == [kind |-> "list", members |-> members]
RosterAbsent == [kind |-> "absent", members |-> <<>>]
RosterNull == [kind |-> "null", members |-> <<>>]

SpecKeys == {"battle_id", "format_id", "metadata", "players", "team_revelation", "turns"}

RECURSIVE SumSeq(_)
SumSeq(xs) == IF xs = <<>> THEN 0 ELSE Head(xs) + SumSeq(Tail(xs))

Range(xs) == {xs[k] : k \in DOMAIN xs}

\* [f(x) for x in xs if x]: the truthy values of one field of the entries.
Truthy(team, field) ==
    LET values == [k \in DOMAIN team |-> team[k][field]]
    IN  SelectSeq(values, LAMBDA v : v # (IF field = "species" THEN "" ELSE 0))

\* np.mean
Mean(xs) == Rat(SumSeq(xs), Len(xs))

\* np.std, squared: mean(x^2) - mean(x)^2
StdSquared(xs) ==
    LET n == Len(xs)
        sum == SumSeq(xs)
        sumsq == SumSeq([k \in DOMAIN xs |-> xs[k] * xs[k]])
    IN  Rat(n * sumsq - sum * sum, n * n)

\* features.update(d) and features[k] = v: the new entries replace old ones.
Update(features, d) == d @@ features

\* f'{player_id}_{metric}': value
Entry(player_id, metric, value) == (player_id \o "_" \o metric) :> value

LegendaryBst == 580
PseudoLegendaryBst == 600

\* A count of the legendaries that leaves the pseudo-legendaries out.
LegendaryCount_without_pseudo(bst_list) ==
    Cardinality({k \in DOMAIN bst_list :
                    bst_list[k] >= LegendaryBst /\ bst_list[k] # PseudoLegendaryBst})

\* sum(1 for bst in bst_list if bst >= 580), line 345
LegendaryCount(bst_list) ==
    Cardinality({k \in DOMAIN bst_list : bst_list[k] >= LegendaryBst})

(***************************************************************************)
(* TypeRegistry, continued: tiers and the predicates on the base-stat      *)
(* total of src/src/data/pokemon_data.py.                                  *)
(***************************************************************************)

\* POKEMON_TIERS, in the order of the dict's keys; every list is complete.
POKEMON_TIERS ==
    <<
      [tier |-> "Uber", pokemon_list |->
          <<"Arceus", "Mewtwo", "Lugia", "Ho-Oh", "Rayquaza", "Dialga",
            "Palkia", "Giratina", "Reshiram", "Zekrom", "Kyurem",
            "Xerneas", "Yveltal", "Zygarde", "Solgaleo", "Lunala",
            "Necrozma", "Zacian", "Zamazenta", "Eternatus", "Calyrex",
            "Koraidon", "Miraidon", "Kyogre", "Groudon", "Flutter Mane",
            "Chi-Yu">>],
      [tier |-> "OU", pokemon_list |->
          <<"Dragonite", "Tyranitar", "Salamence", "Metagross",
            "Garchomp", "Hydreigon", "Goodra", "Kommo-o", "Dragapult",
            "Baxcalibur", "Landorus", "Heatran", "Gholdengo",
            "Kingambit", "Iron Valiant", "Great Tusk", "Roaring Moon",
            "Volcarona", "Greninja", "Toxapex", "Ferrothorn",
            "Rotom-Wash">>],
      [tier |-> "UU", pokemon_list |->
          <<"Gengar", "Alakazam", "Machamp", "Magnezone", "Lucario",
            "Togekiss", "Excadrill", "Conkeldurr", "Chandelure",
            "Haxorus", "Talonflame", "Aegislash", "Sylveon", "Mimikyu",
            "Annihilape", "Tinkaton", "Armarouge", "Ceruledge">>]
    >>

DefaultTier == "RU"

\* The thresholds of is_legendary and is_pseudo_legendary.
IsLegendaryBst == 580
IsPseudoLegendaryBst == 600

\* is_legendary: get_pokemon_bst(species) >= 580
is_legendary(species) == get_pokemon_bst(species) >= IsLegendaryBst

\* is_pseudo_legendary: get_pokemon_bst(species) == 600
is_pseudo_legendary(species) == get_pokemon_bst(species) = IsPseudoLegendaryBst

\* A lookup that falls back to the last bucket instead of 'RU'.
get_pokemon_tier_no_default(species) ==
    LET hits == {k \in DOMAIN POKEMON_TIERS :
                    species \in Range(POKEMON_TIERS[k].pokemon_list)}
    IN  IF hits = {} THEN POKEMON_TIERS[Len(POKEMON_TIERS)].tier
        ELSE POKEMON_TIERS[Min(hits)].tier

\* get_pokemon_tier: the loop over POKEMON_TIERS.items() returns at the first
\* bucket that holds the species, and 'RU' follows the loop.
get_pokemon_tier(species) ==
    LET hits == {k \in DOMAIN POKEMON_TIERS :
                    species \in Range(POKEMON_TIERS[k].pokemon_list)}
    IN  IF hits = {} THEN DefaultTier ELSE POKEMON_TIERS[Min(hits)].tier

(***************************************************************************)
(* FeatureAssembler, predictive mode: extract_pre_battle_features of       *)
(* src/notebooks/EDA_notebook_ready.py                                     *)
(***************************************************************************)

\* get_in(battle, ["team_revelation", "teams"], {}).get(player_id, [])
TeamsGet(battle, player_id) ==
    IF battle.is_dict /\ "team_revelation" \in battle.keys
    THEN battle.teams[player_id]
    ELSE RosterAbsent

\* Defaults that leave out the six fields computed from the registry.
RosterDefaults_observable_only(player_id) ==
    Entry(player_id, "team_size", 0)
    @@ Entry(player_id, "avg_level", RatZero)
    @@ Entry(player_id, "level_std", RatZero)
    @@ Entry(player_id, "total_hp", 0)
    @@ Entry(player_id, "avg_hp", RatZero)
    @@ Entry(player_id, "species_diversity", 0)
    @@ Entry(player_id, "avg_bst", RatZero)

\* The defaults of a player without roster data (lines 353-359).
RosterDefaults(player_id) ==
    Entry(player_id, "team_size", 0)
    @@ Entry(player_id, "avg_level", RatZero)
    @@ Entry(player_id, "level_std", RatZero)
    @@ Entry(player_id, "total_hp", 0)
    @@ Entry(player_id, "avg_hp", RatZero)
    @@ Entry(player_id, "species_diversity", 0)
    @@ Entry(player_id, "type_diversity", 0)
    @@ Entry(player_id, "dual_type_count", 0)
    @@ Entry(player_id, "avg_bst", RatZero)
    @@ Entry(player_id, "bst_std", RatZero)
    @@ Entry(player_id, "min_bst", 0)
    @@ Entry(player_id, "max_bst", 0)
    @@ Entry(player_id, "legendary_count", 0)
    @@ Entry(player_id, "pseudo_legendary_count", 0)

\* The per-player fields of lines 303-359.
PreBattleRosterFeatures(player_id, team) ==
    IF team.kind = "list" /\ team.members # <<>>
    THEN
        LET species_list == Truthy(team.members, "species")
            levels == Truthy(team.members, "level")
            hps == Truthy(team.members, "hp")
            bst_list == [k \in DOMAIN species_list |-> get_pokemon_bst(species_list[k])]
            observable ==
                Entry(player_id, "team_size", Len(team.members))
                @@ Entry(player_id, "avg_level", IF levels # <<>> THEN Mean(levels) ELSE RatZero)
                @@ Entry(player_id, "level_std",
                         IF Len(levels) > 1 THEN StdSquared(levels) ELSE RatZero)
                @@ Entry(player_id, "total_hp", IF hps # <<>> THEN SumSeq(hps) ELSE 0)
                @@ Entry(player_id, "avg_hp", IF hps # <<>> THEN Mean(hps) ELSE RatZero)
                @@ Entry(player_id, "species_diversity", Cardinality(Range(species_list)))
        IN  IF POKEMON_DATA_AVAILABLE
            THEN Update(observable,
                Entry(player_id, "type_diversity",
                      Cardinality(UNION {Range(get_pokemon_types(species_list[k])) :
                                            k \in DOMAIN species_list}))
                @@ Entry(player_id, "dual_type_count",
                         Cardinality({k \in DOMAIN species_list :
                                         Len(get_pokemon_types(species_list[k])) = 2}))
                @@ Entry(player_id, "avg_bst",
                         IF bst_list # <<>> THEN Mean(bst_list) ELSE <<DefaultBst, 1>>)
                @@ Entry(player_id, "bst_std",
                         IF Len(bst_list) > 1 THEN StdSquared(bst_list) ELSE RatZero)
                @@ Entry(player_id, "min_bst",
                         IF bst_list # <<>> THEN Min(Range(bst_list)) ELSE DefaultBst)
                @@ Entry(player_id, "max_bst",
                         IF bst_list # <<>> THEN Max(Range(bst_list)) ELSE DefaultBst)
                @@ Entry(player_id, "legendary_count", LegendaryCount(bst_list))
                @@ Entry(player_id, "pseudo_legendary_count",
                         Cardinality({k \in DOMAIN bst_list : bst_list[k] = PseudoLegendaryBst})))
            ELSE Update(observable,
                Entry(player_id, "type_diversity", 0)
                @@ Entry(player_id, "dual_type_count", 0)
                @@ Entry(player_id, "avg_bst", RatZero)
                @@ Entry(player_id, "bst_std", RatZero)
                @@ Entry(player_id, "min_bst", 0)
                @@ Entry(player_id, "max_bst", 0)
                @@ Entry(player_id, "legendary_count", 0)
                @@ Entry(player_id, "pseudo_legendary_count", 0))
    ELSE RosterDefaults(player_id)

\* The exception a call ended with, in place of a return value.
Raised(exc) == [called |-> TRUE, raised |-> TRUE, exc |-> exc]
Returned(value) == [called |-> TRUE, raised |-> FALSE, value |-> value]

\* metadata.outcome.winner by get_in: None when any level is missing.
OutcomeWinner(battle) ==
    IF battle.is_dict /\ "metadata" \in battle.keys THEN battle.winner ELSE "None"

OutcomeReason(battle) ==
    IF battle.is_dict /\ "metadata" \in battle.keys THEN battle.reason ELSE "None"

\* battle.get('battle_id')
BattleIdOf(battle) == IF "battle_id" \in battle.keys THEN battle.battle_id ELSE "None"

\* The derived advantages with a signed team-size difference.
DerivedAdvantages_signed(features) ==
    [level_advantage_p1 |-> RatSub(features["p1_avg_level"], features["p2_avg_level"]),
     hp_advantage_p1 |-> features["p1_total_hp"] - features["p2_total_hp"],
     bst_advantage_p1 |-> RatSub(features["p1_avg_bst"], features["p2_avg_bst"]),
     team_size_difference |-> features["p1_team_size"] - features["p2_team_size"]]

\* Lines 365-369.
DerivedAdvantages(features) ==
    [level_advantage_p1 |-> RatSub(features["p1_avg_level"], features["p2_avg_level"]),
     hp_advantage_p1 |-> features["p1_total_hp"] - features["p2_total_hp"],
     bst_advantage_p1 |-> RatSub(features["p1_avg_bst"], features["p2_avg_bst"]),
     team_size_difference |-> Abs(features["p1_team_size"] - features["p2_team_size"])]

\* A first dict that also holds the number of the call in the process.
InitialFeatures_counting(battle) ==
    [battle_id |-> BattleIdOf(battle),
     call_no |-> IF fx_pre.called THEN 2 ELSE 1]

\* A first dict that also holds the length of the match.
InitialFeatures_with_turns(battle) ==
    [battle_id |-> BattleIdOf(battle), total_turns |-> Len(battle.turns)]

\* features = {'battle_id': battle.get('battle_id')}: line 297
InitialFeatures(battle) == [battle_id |-> BattleIdOf(battle)]

\* extract_pre_battle_features.  battle.get raises on a value that is not a
\* dict (line 297); iterating teams.get(side, []) raises on a roster that is
\* null (lines 300-301).
extract_pre_battle_features(battle) ==
    IF ~battle.is_dict THEN Raised("AttributeError")
    ELSE IF TeamsGet(battle, "p1").kind = "null" \/ TeamsGet(battle, "p2").kind = "null"
    THEN Raised("TypeError")
    ELSE
    LET p1_species == Truthy(TeamsGet(battle, "p1").members, "species")
        p2_species == Truthy(TeamsGet(battle, "p2").members, "species")
        rosters ==
            Update(Update(InitialFeatures(battle),
                          PreBattleRosterFeatures("p1", TeamsGet(battle, "p1"))),
                   PreBattleRosterFeatures("p2", TeamsGet(battle, "p2")))
        matchups == Update(rosters, calculate_team_type_advantage(p1_species, p2_species))
        derived == Update(matchups, DerivedAdvantages(matchups))
        winner == OutcomeWinner(battle)
    IN  Returned(Update(derived,
            [winner |-> IF winner \in {"p1", "p2"} THEN winner ELSE "None"]))

(***************************************************************************)
(* The list objects behind the registry.  get_pokemon_types returns the    *)
(* list POKEMON_TYPES holds, not a copy, and a new ['Normal'] for a        *)
(* species it does not hold; what a caller does to the returned list is    *)
(* done to the table.                                                      *)
(***************************************************************************)

\* The object get_pokemon_types(species) returns: the table's own list, or
\* the list built for the default.
TypesObject(species) ==
    IF species \in DOMAIN POKEMON_TYPES THEN species ELSE "['Normal']"

\* The returned list extended as well as the local one.
ListExtend_both(heap, target, source) ==
    [heap EXCEPT ![target] = heap[target] \o heap[source],
                 ![source] = heap[source] \o heap[source]]

\* target.extend(source)
ListExtend(heap, target, source) ==
    [heap EXCEPT ![target] = heap[target] \o heap[source]]

RECURSIVE ExtendWithTypes(_, _)
\* for species in species_list: types_list.extend(get_pokemon_types(species)),
\* lines 326-328
ExtendWithTypes(heap, species_list) ==
    IF species_list = <<>> THEN heap
    ELSE ExtendWithTypes(
            ListExtend([heap EXCEPT !["['Normal']"] = <<"Normal">>],
                       "types_list", TypesObject(Head(species_list))),
            Tail(species_list))

\* The table's lists after the per-player block of lines 303-359 for one
\* roster: types_list starts empty for each player.
TypeListsAfterRoster(lists, team) ==
    IF team.kind = "list" /\ team.members # <<>> /\ POKEMON_DATA_AVAILABLE
    THEN LET heap == ("types_list" :> <<>>) @@ ("['Normal']" :> <<"Normal">>) @@ lists
             after == ExtendWithTypes(heap, Truthy(team.members, "species"))
         IN  [species \in DOMAIN lists |-> after[species]]
    ELSE lists

\* The table's lists after extract_pre_battle_features(battle); a call that
\* raises does so before the first registry lookup.
TypeListsAfter(lists, battle) ==
    IF extract_pre_battle_features(battle).raised THEN lists
    ELSE TypeListsAfterRoster(TypeListsAfterRoster(lists, TeamsGet(battle, "p1")),
                              TeamsGet(battle, "p2"))

(***************************************************************************)
(* extract_team_composition_features of                                     *)
(* src/notebooks/ML_Training_Advanced.py                                   *)
(***************************************************************************)

\* The per-player fields of lines 356-405.  The revelation and
\* known-information counts are those of entries that reveal nothing.
TeamCompositionRosterFeatures(player_id, team) ==
    IF team.kind = "list" /\ team.members # <<>>
    THEN
        LET levels == Truthy(team.members, "level")
            hps == Truthy(team.members, "hp")
        IN  Entry(player_id, "team_size", Len(team.members))
            @@ Entry(player_id, "avg_level", IF levels # <<>> THEN Mean(levels) ELSE RatZero)
            @@ Entry(player_id, "level_std",
                     IF Len(levels) > 1 THEN StdSquared(levels) ELSE RatZero)
            @@ Entry(player_id, "min_level", IF levels # <<>> THEN Min(Range(levels)) ELSE 0)
            @@ Entry(player_id, "max_level", IF levels # <<>> THEN Max(Range(levels)) ELSE 0)
            @@ Entry(player_id, "avg_hp", IF hps # <<>> THEN Mean(hps) ELSE RatZero)
            @@ Entry(player_id, "hp_std", IF Len(hps) > 1 THEN StdSquared(hps) ELSE RatZero)
            @@ Entry(player_id, "total_hp", IF hps # <<>> THEN SumSeq(hps) ELSE 0)
            @@ Entry(player_id, "species_diversity",
                     Cardinality(Range(Truthy(team.members, "species"))))
            @@ Entry(player_id, "fully_revealed", 0)
            @@ Entry(player_id, "partially_revealed", 0)
            @@ Entry(player_id, "known_abilities", 0)
            @@ Entry(player_id, "known_items", 0)
            @@ Entry(player_id, "total_known_moves", 0)
            @@ Entry(player_id, "info_advantage", RatZero)
    ELSE
        Entry(player_id, "team_size", 0)
        @@ Entry(player_id, "avg_level", RatZero)
        @@ Entry(player_id, "level_std", RatZero)
        @@ Entry(player_id, "min_level", 0)
        @@ Entry(player_id, "max_level", 0)
        @@ Entry(player_id, "avg_hp", RatZero)
        @@ Entry(player_id, "hp_std", RatZero)
        @@ Entry(player_id, "total_hp", 0)
        @@ Entry(player_id, "species_diversity", 0)
        @@ Entry(player_id, "fully_revealed", 0)
        @@ Entry(player_id, "partially_revealed", 0)
        @@ Entry(player_id, "known_abilities", 0)
        @@ Entry(player_id, "known_items", 0)
        @@ Entry(player_id, "total_known_moves", 0)
        @@ Entry(player_id, "info_advantage", RatZero)

\* extract_team_composition_features: battle is only read through get_in.
extract_team_composition_features(battle) ==
    Returned(Update(TeamCompositionRosterFeatures("p1", TeamsGet(battle, "p1")),
                    TeamCompositionRosterFeatures("p2", TeamsGet(battle, "p2"))))

(***************************************************************************)
(* FeatureAssembler of src/notebooks/ML_Training_Advanced.py: the body of  *)
(* the try block of extract_battle_features, for one record.               *)
(***************************************************************************)

\* players.get(player_id, {}).get('ladder_rating_pre', 0)
RatingOf(battle, player_id) ==
    IF "players" \in battle.keys THEN battle.ratings[player_id] ELSE 0

\* Lines 413-478.  calculate_battle_metrics raises on a value that is not a
\* dict (battle.get, line 254) and on a 'turns' that is not a list
\* (len(turns), line 258, or the iteration of line 282).
BattleFeatures(battle) ==
    IF ~battle.is_dict THEN Raised("AttributeError")
    ELSE IF "turns" \in battle.keys /\ battle.turns_kind # "list" THEN Raised("TypeError")
    ELSE
    LET turns == IF "turns" \in battle.keys THEN battle.turns ELSE <<>>
        metrics == calculate_battle_metrics(turns, OutcomeWinner(battle), OutcomeReason(battle))
        team_features == extract_team_composition_features(battle).value
        p1_rating == RatingOf(battle, "p1")
        p2_rating == RatingOf(battle, "p2")
        rated == p1_rating # 0 /\ p2_rating # 0
        base ==
            [battle_id |-> BattleIdOf(battle),
             format |-> IF "format_id" \in battle.keys THEN battle.format_id ELSE "",
             turns |-> metrics.total_turns,
             winner |-> metrics.winner,
             reason |-> metrics.reason,
             total_events |-> metrics.total_events,
             move_events |-> metrics.move_events,
             switch_events |-> metrics.switch_events,
             damage_events |-> metrics.damage_events,
             heal_events |-> metrics.heal_events,
             status_events |-> metrics.status_events,
             effect_events |-> metrics.effect_events,
             events_per_turn |-> metrics.events_per_turn,
             early_game_intensity |-> metrics.early_game_intensity,
             mid_game_intensity |-> metrics.mid_game_intensity,
             late_game_intensity |-> metrics.late_game_intensity,
             move_switch_ratio |-> metrics.move_switch_ratio,
             consecutive_moves |-> metrics.consecutive_moves,
             consecutive_switches |-> metrics.consecutive_switches,
             action_diversity |-> metrics.action_diversity,
             p1_rating |-> p1_rating,
             p2_rating |-> p2_rating]
        combined == Update(base, team_features)
        derived ==
            [rating_difference |-> IF rated THEN Abs(p1_rating - p2_rating) ELSE 0,
             rating_advantage_p1 |-> IF rated THEN p1_rating - p2_rating ELSE 0,
             team_size_difference |->
                Abs(combined["p1_team_size"] - combined["p2_team_size"]),
             level_advantage_p1 |->
                RatSub(combined["p1_avg_level"], combined["p2_avg_level"]),
             hp_advantage_p1 |-> combined["p1_total_hp"] - combined["p2_total_hp"],
             info_advantage_p1 |->
                RatSub(combined["p1_info_advantage"], combined["p2_info_advantage"]),
             switch_ratio |->
                IF metrics.total_events > 0
                THEN Rat(metrics.switch_events, metrics.total_events) ELSE RatZero,
             move_ratio |->
                IF metrics.total_events > 0
                THEN Rat(metrics.move_events, metrics.total_events) ELSE RatZero,
             damage_ratio |->
                IF metrics.total_events > 0
                THEN Rat(metrics.damage_events, metrics.total_events) ELSE RatZero,
             battle_intensity |->
                Rat(metrics.damage_events + metrics.status_events,
                    Max({metrics.total_turns, 1}))]
    IN  Returned(Update(combined, derived))

\* The except clause, lines 480-482: the message is formatted with
\* battle.get('battle_id', 'unknown'), which raises when battle is not a dict.
HandlerRaises(battle) == ~battle.is_dict

\* The columns that hold strings; every other column of the frame is numeric.
StringColumns == {"battle_id", "format", "winner", "reason"}

\* The columns of the frame after the label encoding of lines 490-498.
FrameColumns(rows) ==
    LET columns == UNION {DOMAIN rows[k] : k \in DOMAIN rows}
    IN  columns \cup {c \o "_encoded" : c \in {"format", "winner"} \cap columns}

\* test_size=0.2 of prepare_data, as the fraction TestShare / TestShareOf
TestShare == 1
TestShareOf == 5

\* train_test_split(X, y, test_size=0.2, stratify=y) of scikit-learn on a
\* frame of n rows: n_test = ceil(0.2 n), n_train = floor(0.8 n).  It raises
\* ValueError when the train set would be empty, when a class of y has fewer
\* than two members, or when either part is smaller than the number of
\* classes.
SplitRaises(rows) ==
    LET n == Len(rows)
        n_test == (TestShare * n + TestShareOf - 1) \div TestShareOf
        n_train == ((TestShareOf - TestShare) * n) \div TestShareOf
        classes == {rows[k]["winner"] : k \in DOMAIN rows}
        members(c) == Cardinality({k \in DOMAIN rows : rows[k]["winner"] = c})
    IN  \/ n_train = 0
        \/ \E c \in classes : members(c) < 2
        \/ n_train < Cardinality(classes)
        \/ n_test < Cardinality(classes)

\* PokemonMLTrainer.prepare_data(df): the list numeric_cols it returns, the
\* columns of X.  df[target_col] raises KeyError when the frame has no such
\* column.
prepare_data(rows) ==
    IF "winner_encoded" \notin FrameColumns(rows) THEN Raised("KeyError")
    ELSE IF SplitRaises(rows) THEN Raised("ValueError")
    ELSE Returned((FrameColumns(rows) \ StringColumns) \ {"winner_encoded", "battle_id"})

(***************************************************************************)
(* BattleDataProcessor of src/src/data/feature_extractor.py                *)
(***************************************************************************)

DefaultRating == 1000

\* _extract_battle_features.  battle.get raises on a value that is not a
\* dict; max(total_turns, 1) raises on a 'turns' that is a list or null.
\* str(e) of an event holds 'damage' when its type does.
_extract_battle_features(battle) ==
    IF ~battle.is_dict THEN Raised("AttributeError")
    ELSE IF "turns" \in battle.keys /\ battle.turns_kind # "int" THEN Raised("TypeError")
    ELSE
    LET events == IF "events" \in battle.keys THEN battle.events ELSE <<>>
        total_events == Len(events)
        total_turns == IF "turns" \in battle.keys THEN battle.turns_int ELSE 0
        p1_rating == IF "p1" \in battle.keys THEN battle.flat.p1 ELSE DefaultRating
        p2_rating == IF "p2" \in battle.keys THEN battle.flat.p2 ELSE DefaultRating
        winner == IF "winner" \in battle.keys THEN battle.flat.winner ELSE "unknown"
    IN  Returned(
            [total_events |-> total_events,
             total_turns |-> total_turns,
             move_events |->
                Cardinality({k \in DOMAIN events : GetTypeOrNone(events[k]) = STR_MOVE}),
             switch_events |->
                Cardinality({k \in DOMAIN events : GetTypeOrNone(events[k]) = STR_SWITCH}),
             damage_events |->
                Cardinality({k \in DOMAIN events :
                                Contains(GetTypeOrEmpty(events[k]), STR_DAMAGE)}),
             events_per_turn |-> Rat(total_events, Max({total_turns, 1})),
             p1_rating |-> p1_rating,
             p2_rating |-> p2_rating,
             rating_diff |-> Abs(p1_rating - p2_rating),
             winner |-> winner,
             p1_won |-> IF winner = "p1" THEN 1 ELSE 0])

(***************************************************************************)
(* The body of the pre-battle extraction loop of                           *)
(* src/notebooks/EDA_notebook_ready.py, lines 1119-1125.                   *)
(***************************************************************************)

PreBattleRow(battle) ==
    LET extracted == extract_pre_battle_features(battle)
    IN  IF extracted.raised THEN extracted
        ELSE Returned(Update(extracted.value, [winner |-> OutcomeWinner(battle)]))

(***************************************************************************)
(* Registry lookups as calls: any accessor may be called at any time.      *)
(***************************************************************************)

RegIdle == [op |-> "none", a |-> "", b |-> ""]

RegInit ==
    /\ reg_call = RegIdle
    /\ reg_ret = 0
    /\ type_lists = POKEMON_TYPES

OtherThanRegistry == <<type_lists, POKEMON_DATA_AVAILABLE, muVars, tlVars, fxVars, batchVars, wkVars, webVars>>

CallTypeEffectiveness ==
    /\ \E a \in TypeNames \cup {UnknownType}, d \in TypeNames \cup {UnknownType} :
        /\ reg_call' = [op |-> "get_type_effectiveness", a |-> a, b |-> d]
        /\ reg_ret' = get_type_effectiveness(a, d)
    /\ UNCHANGED OtherThanRegistry

\* The species the type and base-stat accessors are called with: those of
\* the excerpts of POKEMON_TYPES and POKEMON_BST, one that is in no table,
\* and a registered name in lower case.
ExcerptSpecies == DOMAIN POKEMON_TYPES \cup {UnknownSpecies, "mewtwo"}

\* The species get_pokemon_tier is called with: these and every species of
\* a tier bucket.
RegistrySpecies ==
    ExcerptSpecies
    \cup UNION {Range(POKEMON_TIERS[k].pokemon_list) : k \in DOMAIN POKEMON_TIERS}

CallPokemonTypes ==
    /\ \E species \in ExcerptSpecies :
        /\ reg_call' = [op |-> "get_pokemon_types", a |-> species, b |-> ""]
        /\ reg_ret' = get_pokemon_types(species)
    /\ UNCHANGED OtherThanRegistry

CallPokemonBst ==
    /\ \E species \in ExcerptSpecies :
        /\ reg_call' = [op |-> "get_pokemon_bst", a |-> species, b |-> ""]
        /\ reg_ret' = get_pokemon_bst(species)
    /\ UNCHANGED OtherThanRegistry

CallIsLegendary ==
    /\ \E species \in ExcerptSpecies :
        /\ reg_call' = [op |-> "is_legendary", a |-> species, b |-> ""]
        /\ reg_ret' = is_legendary(species)
    /\ UNCHANGED OtherThanRegistry

CallIsPseudoLegendary ==
    /\ \E species \in ExcerptSpecies :
        /\ reg_call' = [op |-> "is_pseudo_legendary", a |-> species, b |-> ""]
        /\ reg_ret' = is_pseudo_legendary(species)
    /\ UNCHANGED OtherThanRegistry

CallPokemonTier ==
    /\ \E species \in RegistrySpecies :
        /\ reg_call' = [op |-> "get_pokemon_tier", a |-> species, b |-> ""]
        /\ reg_ret' = get_pokemon_tier(species)
    /\ UNCHANGED OtherThanRegistry

(***************************************************************************)
(* The matchup scorer applied to a pair of species lists, in both orders.  *)
(***************************************************************************)

\* The largest species list the matchup scorer is given.
MaxTeam == 2

\* The species the lists are drawn from: mono Fire, mono Water, Ghost/Poison,
\* mono Normal, and a species in no table.
MatchupSpecies == {"Cinderace", "Blastoise", "Gengar", "Snorlax", UnknownSpecies}

SeqsUpTo(S, n) == UNION {[1..k -> S] : k \in 0..n}

NotCalled == [called |-> FALSE]

MuIdle ==
    /\ mu_team1 = <<>>
    /\ mu_team2 = <<>>
    /\ mu_fwd = NotCalled
    /\ mu_rev = NotCalled

MuInit ==
    /\ POKEMON_DATA_AVAILABLE \in BOOLEAN
    /\ mu_team1 \in SeqsUpTo(MatchupSpecies, MaxTeam)
    /\ mu_team2 \in SeqsUpTo(MatchupSpecies, MaxTeam)
    /\ mu_fwd = NotCalled
    /\ mu_rev = NotCalled

Called(r) == [called |-> TRUE] @@ r

\* calculate_team_type_advantage(team1, team2)
ScoreTeams ==
    /\ mu_fwd = NotCalled
    /\ mu_fwd' = Called(calculate_team_type_advantage(mu_team1, mu_team2))
    /\ UNCHANGED <<mu_team1, mu_team2, mu_rev, POKEMON_DATA_AVAILABLE, regVars, tlVars, fxVars, batchVars, wkVars, webVars>>

\* calculate_team_type_advantage(team2, team1): the same rosters exchanged.
ScoreTeamsExchanged ==
    /\ mu_rev = NotCalled
    /\ mu_rev' = Called(calculate_team_type_advantage(mu_team2, mu_team1))
    /\ UNCHANGED <<mu_team1, mu_team2, mu_fwd, POKEMON_DATA_AVAILABLE, regVars, tlVars, fxVars, batchVars, wkVars, webVars>>

(***************************************************************************)
(* The pass of calculate_battle_metrics over battle = {'turns': [...]},    *)
(* one step per loop iteration; each turn is chosen when the loop reads it.*)
(***************************************************************************)

\* The longest timeline: turns, and events over all turns.
MaxTurns == 3
MaxEvents == 3

\* A type that is in none of the categories of the tally.
STR_CANT == <<"c", "a", "n", "t">>

\* The events a turn is made of: move, switch, a capitalised Move, a
\* "-damage" event, an event of no category and an event that has no
\* 'type' key.
TimelineEvents ==
    {Event(STR_MOVE), Event(STR_SWITCH), Event(<<"M", "o", "v", "e">>),
     Event(<<"-">> \o STR_DAMAGE), Event(STR_CANT), EventWithoutType}

TlIdle ==
    /\ tl_turns = <<>>
    /\ tl_pc = "idle"
    /\ tl_i = 0
    /\ tl_acc = InitialCounters
    /\ tl_result = NotCalled

TlInit ==
    /\ tl_turns = <<>>
    /\ tl_pc = "turns"
    /\ tl_i = 0
    /\ tl_acc = InitialCounters
    /\ tl_result = NotCalled

OtherThanTimeline == <<regVars, POKEMON_DATA_AVAILABLE, muVars, fxVars, batchVars, wkVars, webVars>>

\* for turn_idx, turn in enumerate(turns): lines 282-293
BeginTurn ==
    /\ tl_pc = "turns"
    /\ Len(tl_turns) < MaxTurns
    /\ \E turn_events \in SeqsUpTo(TimelineEvents, MaxEvents - tl_acc.total_events) :
        /\ tl_turns' = Append(tl_turns, turn_events)
        /\ tl_acc' = TurnHead(tl_acc, Len(tl_turns), turn_events)
        /\ tl_pc' = IF turn_events = <<>> THEN "turns" ELSE "events"
    /\ tl_i' = 0
    /\ UNCHANGED <<tl_result, OtherThanTimeline>>

\* for event in turn_events: lines 296-322
ProcessEvent ==
    /\ tl_pc = "events"
    /\ LET turn_events == tl_turns[Len(tl_turns)]
       IN  /\ tl_acc' = EventStep(tl_acc, turn_events[tl_i + 1])
           /\ tl_i' = tl_i + 1
           /\ tl_pc' = IF tl_i + 1 = Len(turn_events) THEN "turns" ELSE "events"
    /\ UNCHANGED <<tl_turns, tl_result, OtherThanTimeline>>

\* The turn list is exhausted: lines 325-349
FinishPass ==
    /\ tl_pc = "turns"
    /\ tl_acc' = FinalFlush(tl_acc)
    /\ tl_result' = Called(BattleMetrics(tl_acc', tl_turns, NONE, NONE))
    /\ tl_pc' = "done"
    /\ UNCHANGED <<tl_turns, tl_i, OtherThanTimeline>>

\* The longest match whose turns reach the late phase (turn index 8).
MaxPhaseTurns == 9

\* The turns such a match is made of: no event, one move, a switch and the
\* damage it is followed by.
PhaseTurns ==
    {<<>>, <<Event(STR_MOVE)>>, <<Event(STR_SWITCH), Event(<<"-">> \o STR_DAMAGE)>>}

\* for turn_idx, turn in enumerate(turns): lines 282-293
BeginPhaseTurn ==
    /\ tl_pc = "turns"
    /\ Len(tl_turns) < MaxPhaseTurns
    /\ \E turn_events \in PhaseTurns :
        /\ tl_turns' = Append(tl_turns, turn_events)
        /\ tl_acc' = TurnHead(tl_acc, Len(tl_turns), turn_events)
        /\ tl_pc' = IF turn_events = <<>> THEN "turns" ELSE "events"
    /\ tl_i' = 0
    /\ UNCHANGED <<tl_result, OtherThanTimeline>>

\* The longest turn of a match of one turn.
MaxTallyEvents == 2

STR_STATUS == <<"s", "t", "a", "t", "u", "s">>

\* Events of every kind the tally tells apart: move, switch, a capitalised
\* Move, "-damage", "-heal", faint, status, an event of no category and an
\* event that has no 'type' key.
TallyEvents ==
    {Event(STR_MOVE), Event(STR_SWITCH), Event(<<"M", "o", "v", "e">>),
     Event(<<"-">> \o STR_DAMAGE), Event(<<"-">> \o STR_HEAL), Event(STR_FAINT),
     Event(STR_STATUS), Event(STR_CANT), EventWithoutType}

\* The pass over a match of one turn that has events: lines 282-293
BeginOnlyTurn ==
    /\ tl_pc = "turns"
    /\ tl_turns = <<>>
    /\ \E turn_events \in SeqsUpTo(TallyEvents, MaxTallyEvents) \ {<<>>} :
        /\ tl_turns' = <<turn_events>>
        /\ tl_acc' = TurnHead(tl_acc, 0, turn_events)
    /\ tl_pc' = "events"
    /\ tl_i' = 0
    /\ UNCHANGED <<tl_result, OtherThanTimeline>>

(***************************************************************************)
(* The feature extractors applied to one match record and to records       *)
(* related to it.                                                          *)
(***************************************************************************)

\* The largest roster of a match record.
MaxRoster == 2

\* The entries rosters are made of: a mono-type species, a dual-type species
\* of BST 600, and an entry that reveals neither species nor level nor hp.
FxPokemon ==
    {Pokemon("Cinderace", 50, 80), Pokemon("Garchomp", 100, 108), Pokemon("", 0, 0)}

FxRosters ==
    {RosterAbsent, RosterNull} \cup
    {RosterList(members) : members \in SeqsUpTo(FxPokemon, MaxRoster)}

\* The timelines and termination reasons a record is varied over.
FxTurns ==
    {<<>>,
     <<<<Event(STR_MOVE), Event(STR_SWITCH)>>, <<Event(STR_MOVE)>>>>}
FxReasons == {"normal", "forfeit"}

MatchRecord(teams, winner, turns, reason) ==
    [is_dict |-> TRUE, keys |-> SpecKeys, battle_id |-> "battle-1",
     format_id |-> "gen9randombattle", winner |-> winner, reason |-> reason,
     ratings |-> [p1 |-> 1500, p2 |-> 1400], teams |-> teams,
     turns_kind |-> "list", turns |-> turns, turns_int |-> 0,
     events |-> <<>>, flat |-> [p1 |-> 0, p2 |-> 0, winner |-> "None"]]

NoBattle == MatchRecord([p1 |-> RosterAbsent, p2 |-> RosterAbsent], "None", <<>>, "None")

NoOtherCall == [op |-> "none", called |-> FALSE]

FxIdle ==
    /\ fx_battle = NoBattle
    /\ fx_pre = NotCalled
    /\ fx_other_battle = NoBattle
    /\ fx_other = NoOtherCall
    /\ fx_again = NoOtherCall

FxInit ==
    /\ \E p1 \in FxRosters, p2 \in FxRosters, winner \in {"p1", "p2", "tie", "None"} :
          fx_battle = MatchRecord([p1 |-> p1, p2 |-> p2], winner,
                                  <<<<Event(STR_MOVE)>>>>, "normal")
    /\ fx_pre = NotCalled
    /\ fx_other_battle = NoBattle
    /\ fx_other = NoOtherCall
    /\ fx_again = NoOtherCall

\* The entries of the rosters of a synthetic match: two mono-type Fire
\* species of different BST, a mono-type Grass and a mono-type Water species
\* of the BST of the first.
ScenarioPokemon ==
    {Pokemon("Cinderace", 50, 80), Pokemon("Flareon", 50, 80),
     Pokemon("Rillaboom", 50, 80), Pokemon("Blastoise", 50, 80)}

ScenarioRosters ==
    {RosterList(members) : members \in SeqsUpTo(ScenarioPokemon, MaxRoster)}

\* A synthetic match, not yet extracted.
ScenarioInit ==
    /\ \E p1 \in ScenarioRosters, p2 \in ScenarioRosters :
          fx_battle = MatchRecord([p1 |-> p1, p2 |-> p2], "p1", <<>>, "normal")
    /\ fx_pre = NotCalled
    /\ fx_other_battle = NoBattle
    /\ fx_other = NoOtherCall
    /\ fx_again = NoOtherCall

\* The entries of the rosters of a match with legendaries: a species of BST
\* 680, a dual-type species of BST 600, one of BST 530 and an entry that
\* reveals neither species nor level nor hp.
LegendPokemon ==
    {Pokemon("Mewtwo", 100, 106), Pokemon("Garchomp", 100, 108),
     Pokemon("Cinderace", 50, 80), Pokemon("", 0, 0)}

LegendRosters ==
    {RosterAbsent} \cup
    {RosterList(members) : members \in SeqsUpTo(LegendPokemon, MaxRoster)}

\* A match with legendaries, not yet extracted.
LegendInit ==
    /\ \E p1 \in LegendRosters, p2 \in LegendRosters :
          fx_battle = MatchRecord([p1 |-> p1, p2 |-> p2], "p2", <<>>, "normal")
    /\ fx_pre = NotCalled
    /\ fx_other_battle = NoBattle
    /\ fx_other = NoOtherCall
    /\ fx_again = NoOtherCall

OtherThanFeatures == <<reg_call, reg_ret, POKEMON_DATA_AVAILABLE, muVars, tlVars, batchVars, wkVars, webVars>>

\* The same match with the two rosters exchanged.
Exchanged(battle) ==
    [battle EXCEPT !.teams = [p1 |-> battle.teams.p2, p2 |-> battle.teams.p1]]

\* extract_pre_battle_features(battle)
ExtractPreBattle ==
    /\ fx_pre = NotCalled
    /\ fx_pre' = extract_pre_battle_features(fx_battle)
    /\ type_lists' = TypeListsAfter(type_lists, fx_battle)
    /\ UNCHANGED <<fx_battle, fx_other_battle, fx_other, fx_again, OtherThanFeatures>>

\* extract_pre_battle_features on the match with its rosters exchanged
ExtractPreBattleExchanged ==
    /\ fx_other = NoOtherCall
    /\ fx_other_battle' = Exchanged(fx_battle)
    /\ fx_other' = [op |-> "exchanged"] @@ extract_pre_battle_features(fx_other_battle')
    /\ type_lists' = TypeListsAfter(type_lists, fx_other_battle')
    /\ UNCHANGED <<fx_battle, fx_pre, fx_again, OtherThanFeatures>>

\* extract_pre_battle_features on the match with another timeline, or with no
\* 'turns' key at all, and another reason
ExtractPreBattleVaried ==
    /\ fx_other = NoOtherCall
    /\ \E turns \in FxTurns, reason \in FxReasons, has_turns \in BOOLEAN :
          /\ has_turns \/ turns = <<>>
          /\ fx_other_battle' =
                [fx_battle EXCEPT !.turns = turns, !.reason = reason,
                                  !.keys = IF has_turns THEN SpecKeys
                                           ELSE SpecKeys \ {"turns"}]
    /\ fx_other' = [op |-> "varied"] @@ extract_pre_battle_features(fx_other_battle')
    /\ type_lists' = TypeListsAfter(type_lists, fx_other_battle')
    /\ UNCHANGED <<fx_battle, fx_pre, fx_again, OtherThanFeatures>>

\* The body of the extraction loop (lines 1118-1125) on the match with its
\* outcome replaced.
ExtractionLoopBody ==
    /\ fx_other = NoOtherCall
    /\ \E winner \in {"p1", "tie"} :
          fx_other_battle' = [fx_battle EXCEPT !.winner = winner]
    /\ fx_other' = [op |-> "loop"] @@ PreBattleRow(fx_other_battle')
    /\ type_lists' = TypeListsAfter(type_lists, fx_other_battle')
    /\ UNCHANGED <<fx_battle, fx_pre, fx_again, OtherThanFeatures>>

\* extract_team_composition_features(battle)
ExtractTeamComposition ==
    /\ fx_other = NoOtherCall
    /\ fx_other_battle' = fx_battle
    /\ fx_other' = [op |-> "composition"] @@ extract_team_composition_features(fx_battle)
    /\ UNCHANGED <<type_lists, fx_battle, fx_pre, fx_again, OtherThanFeatures>>

\* A second call of an extractor on the same match record, after it and
\* another extraction have been called.
ExtractAgain ==
    /\ fx_again = NoOtherCall
    /\ fx_other.called
    /\ \/ /\ fx_pre.called
          /\ fx_again' = [op |-> "pre_battle"] @@ extract_pre_battle_features(fx_battle)
          /\ type_lists' = TypeListsAfter(type_lists, fx_battle)
       \/ /\ fx_other.op = "composition"
          /\ fx_again' = [op |-> "composition"]
                            @@ extract_team_composition_features(fx_battle)
          /\ UNCHANGED type_lists
    /\ UNCHANGED <<fx_battle, fx_pre, fx_other_battle, fx_other, OtherThanFeatures>>

(***************************************************************************)
(* The three batch jobs over one corpus, one step per loop iteration.      *)
(***************************************************************************)

\* The longest corpus.
MaxCorpus == 2

BatchTurns ==
    <<<<Event(STR_MOVE), Event(<<"-">> \o STR_DAMAGE)>>, <<Event(STR_SWITCH)>>>>

\* A complete record of the documented shape.
WellFormedRecord ==
    MatchRecord([p1 |-> RosterList(<<Pokemon("Cinderace", 50, 80)>>),
                 p2 |-> RosterList(<<Pokemon("Garchomp", 100, 108)>>)],
                "p1", BatchTurns, "normal")

\* A dict that has neither battle_id nor metadata nor turns.
RecordMissingFields ==
    [WellFormedRecord EXCEPT !.keys = {"format_id", "players", "team_revelation"}]

\* A corpus element that is not a dict: JSON null.
NullRecord == [WellFormedRecord EXCEPT !.is_dict = FALSE, !.keys = {}]

\* A complete record whose 'turns' is null.
RecordNullTurns == [WellFormedRecord EXCEPT !.turns_kind = "null", !.turns = <<>>]

\* A complete record whose p1 roster is null.
RecordNullRoster == [WellFormedRecord EXCEPT !.teams.p1 = RosterNull]

\* A record of the flat shape BattleDataProcessor reads.
FlatRecord ==
    [WellFormedRecord EXCEPT
        !.keys = {"events", "turns", "p1", "p2", "winner"},
        !.turns_kind = "int", !.turns = <<>>, !.turns_int = 2,
        !.events = <<Event(STR_MOVE), Event(STR_DAMAGE)>>,
        !.flat = [p1 |-> 1500, p2 |-> 1400, winner |-> "p1"]]

CorpusRecords ==
    {WellFormedRecord, RecordMissingFields, NullRecord, RecordNullTurns,
     RecordNullRoster, FlatRecord}

BatchIdle ==
    /\ corpus = <<>>
    /\ ml_i = 0 /\ ml_features_list = <<>> /\ ml_status = "idle"
    /\ training = NotCalled
    /\ fe_i = 0 /\ fe_features = <<>> /\ fe_status = "idle"
    /\ eda_i = 0 /\ eda_battle_features = <<>> /\ eda_status = "idle"

BatchInit ==
    /\ corpus \in SeqsUpTo(CorpusRecords, MaxCorpus)
    /\ ml_i = 0 /\ ml_features_list = <<>> /\ ml_status = "running"
    /\ training = NotCalled
    /\ fe_i = 0 /\ fe_features = <<>> /\ fe_status = "running"
    /\ eda_i = 0 /\ eda_battle_features = <<>> /\ eda_status = "running"

OtherThanBatch == <<reg_call, reg_ret, POKEMON_DATA_AVAILABLE, muVars, tlVars, fxVars, wkVars, webVars>>

\* One iteration of the loop of extract_battle_features, lines 410-482.
MLProcessBattle ==
    /\ ml_status = "running"
    /\ ml_i < Len(corpus)
    /\ LET battle == corpus[ml_i + 1]
           features == BattleFeatures(battle)
       IN  IF ~features.raised
           THEN /\ ml_features_list' = Append(ml_features_list, features.value)
                /\ ml_i' = ml_i + 1
                /\ ml_status' = "running"
           ELSE IF HandlerRaises(battle)
           THEN /\ ml_status' = "raised"
                /\ UNCHANGED <<ml_features_list, ml_i>>
           ELSE /\ ml_i' = ml_i + 1
                /\ UNCHANGED <<ml_features_list, ml_status>>
    /\ UNCHANGED <<corpus, training, feVars, edaVars, type_lists, OtherThanBatch>>

\* return pd.DataFrame(features_list), line 484
MLReturn ==
    /\ ml_status = "running"
    /\ ml_i = Len(corpus)
    /\ ml_status' = "returned"
    /\ UNCHANGED <<corpus, ml_i, ml_features_list, training, feVars, edaVars, type_lists, OtherThanBatch>>

\* trainer.prepare_data(df_features), line 1451
PrepareData ==
    /\ ml_status = "returned"
    /\ training = NotCalled
    /\ training' = prepare_data(ml_features_list)
    /\ UNCHANGED <<corpus, ml_i, ml_features_list, ml_status, feVars, edaVars, type_lists, OtherThanBatch>>

\* One iteration of the loop of BattleDataProcessor.extract_features.
FEProcessBattle ==
    /\ fe_status = "running"
    /\ fe_i < Len(corpus)
    /\ LET feature_dict == _extract_battle_features(corpus[fe_i + 1])
       IN  fe_features' = IF feature_dict.raised THEN fe_features
                          ELSE Append(fe_features, feature_dict.value)
    /\ fe_i' = fe_i + 1
    /\ UNCHANGED <<corpus, fe_status, mlVars, edaVars, type_lists, OtherThanBatch>>

\* return pd.DataFrame(features), line 77
FEReturn ==
    /\ fe_status = "running"
    /\ fe_i = Len(corpus)
    /\ fe_status' = "returned"
    /\ UNCHANGED <<corpus, fe_i, fe_features, mlVars, edaVars, type_lists, OtherThanBatch>>

\* One iteration of the pre-battle extraction loop; nothing catches what
\* extract_pre_battle_features raises.
EDAProcessBattle ==
    /\ eda_status = "running"
    /\ eda_i < Len(corpus)
    /\ LET features == PreBattleRow(corpus[eda_i + 1])
       IN  IF features.raised
           THEN /\ eda_status' = "raised"
                /\ UNCHANGED <<eda_i, eda_battle_features>>
           ELSE /\ eda_battle_features' = Append(eda_battle_features, features.value)
                /\ eda_i' = eda_i + 1
                /\ UNCHANGED eda_status
    /\ type_lists' = TypeListsAfter(type_lists, corpus[eda_i + 1])
    /\ UNCHANGED <<corpus, mlVars, feVars, OtherThanBatch>>

\* df_features = pd.DataFrame(battle_features), line 1127
EDAFinish ==
    /\ eda_status = "running"
    /\ eda_i = Len(corpus)
    /\ eda_status' = "finished"
    /\ UNCHANGED <<corpus, eda_i, eda_battle_features, mlVars, feVars, type_lists, OtherThanBatch>>

(***************************************************************************)
(* Workers: calls of BattleDataProcessor._extract_battle_features on the   *)
(* matches of one corpus, on one processor object, their steps             *)
(* interleaved.  Each call has its own locals; the processor object and    *)
(* its battles_cache are what the calls share.                             *)
(***************************************************************************)

Workers == {"w1", "w2"}

\* A second flat record, with other events, ratings and winner.
OtherFlatRecord ==
    [FlatRecord EXCEPT
        !.keys = {"events", "turns", "p2", "winner"},
        !.turns_int = 1,
        !.events = <<Event(STR_SWITCH)>>,
        !.flat = [p1 |-> 0, p2 |-> 1200, winner |-> "p2"]]

WorkerRecords == {FlatRecord, OtherFlatRecord, WellFormedRecord, NullRecord}

NoLocals == [step |-> "none"]
NotConverted == [called |-> FALSE]

WkIdle ==
    /\ battles_cache = <<>>
    /\ wk_match = [w \in Workers |-> 0]
    /\ wk_pc = [w \in Workers |-> "idle"]
    /\ wk_local = [w \in Workers |-> NoLocals]
    /\ wk_out = <<>>

\* Locals that another call at the same point of the function overwrites.
Frame_shared(worker) ==
    LET others == {w \in Workers \ {worker} : wk_local[w].step = wk_local[worker].step}
    IN  IF others = {} THEN wk_local[worker]
        ELSE wk_local[CHOOSE w \in others : TRUE]

\* The locals of the call a worker is in.
Frame(worker) == wk_local[worker]

\* Lines 81-90: events, total_events, total_turns and the three counts.
\* battle.get raises on a value that is not a dict.
CountEvents(battle) ==
    LET events == IF "events" \in battle.keys THEN battle.events ELSE <<>>
    IN  [step |-> "counted",
         total_events |-> Len(events),
         total_turns |->
            IF "turns" \notin battle.keys THEN [kind |-> "int", value |-> 0]
            ELSE [kind |-> battle.turns_kind, value |-> battle.turns_int],
         move_events |->
            Cardinality({k \in DOMAIN events : GetTypeOrNone(events[k]) = STR_MOVE}),
         switch_events |->
            Cardinality({k \in DOMAIN events : GetTypeOrNone(events[k]) = STR_SWITCH}),
         damage_events |->
            Cardinality({k \in DOMAIN events :
                            Contains(GetTypeOrEmpty(events[k]), STR_DAMAGE)})]

\* Lines 93-95: p1_rating, p2_rating, winner.
ReadPlayers(local, battle) ==
    [step |-> "players",
     p1_rating |-> IF "p1" \in battle.keys THEN battle.flat.p1 ELSE DefaultRating,
     p2_rating |-> IF "p2" \in battle.keys THEN battle.flat.p2 ELSE DefaultRating,
     winner |-> IF "winner" \in battle.keys THEN battle.flat.winner ELSE "unknown"]
    @@ local

\* Lines 97-109: the returned dict; max(total_turns, 1) raises on a
\* total_turns that is not a number.
BuildDict(local) ==
    IF local.total_turns.kind # "int" THEN Raised("TypeError")
    ELSE Returned(
            [total_events |-> local.total_events,
             total_turns |-> local.total_turns.value,
             move_events |-> local.move_events,
             switch_events |-> local.switch_events,
             damage_events |-> local.damage_events,
             events_per_turn |->
                Rat(local.total_events, Max({local.total_turns.value, 1})),
             p1_rating |-> local.p1_rating,
             p2_rating |-> local.p2_rating,
             rating_diff |-> Abs(local.p1_rating - local.p2_rating),
             winner |-> local.winner,
             p1_won |-> IF local.winner = "p1" THEN 1 ELSE 0])

WkInit ==
    /\ corpus \in SeqsUpTo(WorkerRecords, MaxCorpus)
    /\ battles_cache = <<>>
    /\ wk_match = [w \in Workers |-> 0]
    /\ wk_pc = [w \in Workers |-> "idle"]
    /\ wk_local = [w \in Workers |-> NoLocals]
    /\ wk_out = [k \in DOMAIN corpus |-> NotConverted]

OtherThanWorkers ==
    <<regVars, POKEMON_DATA_AVAILABLE, muVars, tlVars, fxVars, mlVars, feVars, edaVars,
      webVars>>

\* A free worker takes a match that no worker has taken, in any order, and
\* enters _extract_battle_features with it.
TakeMatch ==
    /\ \E worker \in Workers, k \in DOMAIN corpus :
        /\ wk_pc[worker] = "idle"
        /\ wk_out[k] = NotConverted
        /\ \A w \in Workers : wk_match[w] # k
        /\ wk_match' = [wk_match EXCEPT ![worker] = k]
        /\ wk_pc' = [wk_pc EXCEPT ![worker] = "entered"]
        /\ wk_local' = [wk_local EXCEPT ![worker] = NoLocals]
    /\ UNCHANGED <<corpus, battles_cache, wk_out, OtherThanWorkers>>

\* Lines 81-90 in one worker.
WorkerCountEvents ==
    /\ \E worker \in Workers :
        /\ wk_pc[worker] = "entered"
        /\ LET battle == corpus[wk_match[worker]]
           IN  IF ~battle.is_dict
               THEN /\ wk_out' = [wk_out EXCEPT ![wk_match[worker]] = Raised("AttributeError")]
                    /\ wk_pc' = [wk_pc EXCEPT ![worker] = "idle"]
                    /\ wk_match' = [wk_match EXCEPT ![worker] = 0]
                    /\ wk_local' = [wk_local EXCEPT ![worker] = NoLocals]
               ELSE /\ wk_local' = [wk_local EXCEPT ![worker] = CountEvents(battle)]
                    /\ wk_pc' = [wk_pc EXCEPT ![worker] = "counted"]
                    /\ UNCHANGED <<wk_out, wk_match>>
    /\ UNCHANGED <<corpus, battles_cache, OtherThanWorkers>>

\* Lines 93-95 in one worker.
WorkerReadPlayers ==
    /\ \E worker \in Workers :
        /\ wk_pc[worker] = "counted"
        /\ wk_local' = [wk_local EXCEPT
                           ![worker] = ReadPlayers(Frame(worker), corpus[wk_match[worker]])]
        /\ wk_pc' = [wk_pc EXCEPT ![worker] = "players"]
    /\ UNCHANGED <<corpus, battles_cache, wk_match, wk_out, OtherThanWorkers>>

\* Lines 97-109 in one worker: the call returns or raises.
WorkerBuildDict ==
    /\ \E worker \in Workers :
        /\ wk_pc[worker] = "players"
        /\ wk_out' = [wk_out EXCEPT ![wk_match[worker]] = BuildDict(Frame(worker))]
        /\ wk_pc' = [wk_pc EXCEPT ![worker] = "idle"]
        /\ wk_match' = [wk_match EXCEPT ![worker] = 0]
        /\ wk_local' = [wk_local EXCEPT ![worker] = NoLocals]
    /\ UNCHANGED <<corpus, battles_cache, OtherThanWorkers>>

(***************************************************************************)
(* The game server: src/src/web/backend/app.py.  One action per request    *)
(* handler, run from its first line to its answer.                         *)
(***************************************************************************)

\* The requests of a run, the ticks of the clock and the sessions held at
\* one time.
MaxRequests == 5
MaxClock == 2
MaxSessions == 3

\* The clock ticks this many times in a second.
TicksPerSecond == 2

\* datetime.now().strftime('%Y%m%d_%H%M%S'): the time cut to its second.
StrfTime(now) == now \div TicksPerSecond

\* f"game_{...}_{len(game_sessions)}", as the pair of its two parts.
SessionId(now, sessions) == <<StrfTime(now), Cardinality(DOMAIN sessions)>>

\* A well-formed id that start_game has not issued.
NeverIssued == <<0, MaxSessions>>

\* GameSession.__init__ and _initialize_game_state (lines 39-56); of
\* game_state only 'turn' is ever written.
GameSession(session_id, now) ==
    [session_id |-> session_id, created_at |-> now, moves_history |-> <<>>,
     turn |-> 1, is_active |-> TRUE]

\* GameSession.add_move (lines 58-65)
add_move(session, player, action, now) ==
    [session EXCEPT !.moves_history =
        Append(@, [turn |-> session.turn, player |-> player, action |-> action,
                   timestamp |-> now])]

\* What request.get_json() gives the handler: a JSON object with its 'action'
\* and 'winner' values ("None" for a key it lacks), or something that is not
\* an object (no JSON body, null, a list), on which data.get raises.
JsonObject(action, winner) == [is_object |-> TRUE, action |-> action, winner |-> winner]
NotAnObject == [is_object |-> FALSE, action |-> "None", winner |-> "None"]
RequestBodies ==
    {JsonObject("tackle", "None"), JsonObject("None", "human"), NotAnObject}

\* The actions generate_ai_move returns (lines 258-301): the fallback
\* tackle, or what the model picks from action_index_to_game_action.
AiActions == {"tackle", "switch"}

\* The answer of a handler: jsonify(...) and the status code.
Answer(op, session_id, status, turn, winner) ==
    [op |-> op, session_id |-> session_id, status |-> status, turn |-> turn,
     winner |-> winner]

NoAnswer == Answer("none", NeverIssued, 0, 0, "None")

WebIdle ==
    /\ game_sessions = <<>>
    /\ clock = 0
    /\ served = 0
    /\ resp = NoAnswer
    /\ ended = {}

\* The module after import: game_sessions = {} (line 33).
WebInit ==
    /\ game_sessions = <<>>
    /\ clock = 0
    /\ served = 0
    /\ resp = NoAnswer
    /\ ended = {}

OtherThanWeb ==
    <<regVars, POKEMON_DATA_AVAILABLE, muVars, tlVars, fxVars, batchVars, wkVars>>

\* Time passes between two requests.
ClockTick ==
    /\ clock < MaxClock
    /\ clock' = clock + 1
    /\ UNCHANGED <<game_sessions, served, resp, ended, OtherThanWeb>>

\* The ids a client may send: those of the sessions held, those of sessions
\* ended, and one that was never issued.
RequestIds == DOMAIN game_sessions \cup ended \cup {NeverIssued}

\* POST /api/game/start: start_game (lines 123-148)
StartGame ==
    /\ served < MaxRequests
    /\ Cardinality(DOMAIN game_sessions) < MaxSessions
    /\ LET session_id == SessionId(clock, game_sessions)
           session == GameSession(session_id, clock)
       IN  /\ game_sessions' =
                  [id \in DOMAIN game_sessions \cup {session_id} |->
                      IF id = session_id THEN session ELSE game_sessions[id]]
           /\ resp' = Answer("start_game", session_id, 200, session.turn, "None")
    /\ served' = served + 1
    /\ UNCHANGED <<clock, ended, OtherThanWeb>>

\* POST /api/game/<session_id>/move: make_move (lines 151-191)
MakeMove ==
    /\ served < MaxRequests
    /\ \E session_id \in RequestIds, data \in RequestBodies, ai_action \in AiActions :
        IF session_id \notin DOMAIN game_sessions
        THEN /\ resp' = Answer("make_move", session_id, 404, 0, "None")
             /\ UNCHANGED game_sessions
        ELSE IF ~data.is_object
        THEN /\ resp' = Answer("make_move", session_id, 500, 0, "None")
             /\ UNCHANGED game_sessions
        ELSE LET session == game_sessions[session_id]
                 human == add_move(session, "human", data.action, clock)
                 both == add_move(human, "ai", ai_action, clock)
                 moved == [both EXCEPT !.turn = @ + 1]
             IN  /\ game_sessions' = [game_sessions EXCEPT ![session_id] = moved]
                 /\ resp' = Answer("make_move", session_id, 200, moved.turn, "None")
    /\ served' = served + 1
    /\ UNCHANGED <<clock, ended, OtherThanWeb>>

\* POST /api/game/<session_id>/end: end_game (lines 194-234).
\* save_battle_for_learning catches whatever it raises and touches no
\* session.
EndGame ==
    /\ served < MaxRequests
    /\ \E session_id \in RequestIds, data \in RequestBodies :
        IF session_id \notin DOMAIN game_sessions
        THEN /\ resp' = Answer("end_game", session_id, 404, 0, "None")
             /\ UNCHANGED <<game_sessions, ended>>
        ELSE IF ~data.is_object
        THEN /\ resp' = Answer("end_game", session_id, 500, 0, "None")
             /\ UNCHANGED <<game_sessions, ended>>
        ELSE /\ game_sessions' =
                    [id \in DOMAIN game_sessions \ {session_id} |-> game_sessions[id]]
             /\ resp' = Answer("end_game", session_id, 200,
                               game_sessions[session_id].turn, data.winner)
             /\ ended' = ended \cup {session_id}
    /\ served' = served + 1
    /\ UNCHANGED <<clock, OtherThanWeb>>

(***************************************************************************)
(* Specifications                                                          *)
(***************************************************************************)

InitRegistry ==
    /\ RegInit
    /\ POKEMON_DATA_AVAILABLE = TRUE
    /\ MuIdle
    /\ TlIdle
    /\ FxIdle
    /\ BatchIdle
    /\ WkIdle
    /\ WebIdle

NextRegistry ==
    \/ CallTypeEffectiveness
    \/ CallPokemonTypes
    \/ CallPokemonBst
    \/ CallIsLegendary
    \/ CallIsPseudoLegendary
    \/ CallPokemonTier

SpecRegistry == InitRegistry /\ [][NextRegistry]_vars

InitMatchup ==
    /\ MuInit
    /\ RegInit
    /\ TlIdle
    /\ FxIdle
    /\ BatchIdle
    /\ WkIdle
    /\ WebIdle

NextMatchup == ScoreTeams \/ ScoreTeamsExchanged

SpecMatchup == InitMatchup /\ [][NextMatchup]_vars

InitTimeline ==
    /\ TlInit
    /\ RegInit
    /\ POKEMON_DATA_AVAILABLE = TRUE
    /\ MuIdle
    /\ FxIdle
    /\ BatchIdle
    /\ WkIdle
    /\ WebIdle

InitFeatures ==
    /\ FxInit
    /\ POKEMON_DATA_AVAILABLE \in BOOLEAN
    /\ RegInit
    /\ MuIdle
    /\ TlIdle
    /\ BatchIdle
    /\ WkIdle
    /\ WebIdle

NextFeatures ==
    \/ ExtractPreBattle
    \/ ExtractPreBattleExchanged
    \/ ExtractPreBattleVaried
    \/ ExtractTeamComposition
    \/ ExtractionLoopBody
    \/ ExtractAgain

SpecFeatures == InitFeatures /\ [][NextFeatures]_vars

InitScenario ==
    /\ ScenarioInit
    /\ POKEMON_DATA_AVAILABLE \in BOOLEAN
    /\ RegInit
    /\ MuIdle
    /\ TlIdle
    /\ BatchIdle
    /\ WkIdle
    /\ WebIdle

NextScenario ==
    \/ ExtractPreBattle
    \/ ExtractPreBattleExchanged

SpecScenario == InitScenario /\ [][NextScenario]_vars

InitLegends ==
    /\ LegendInit
    /\ POKEMON_DATA_AVAILABLE \in BOOLEAN
    /\ RegInit
    /\ MuIdle
    /\ TlIdle
    /\ BatchIdle
    /\ WkIdle
    /\ WebIdle

NextLegends == ExtractPreBattle \/ ExtractTeamComposition

SpecLegends == InitLegends /\ [][NextLegends]_vars

InitWeb ==
    /\ WebInit
    /\ POKEMON_DATA_AVAILABLE = TRUE
    /\ RegInit
    /\ MuIdle
    /\ TlIdle
    /\ FxIdle
    /\ BatchIdle
    /\ WkIdle

NextWeb == StartGame \/ MakeMove \/ EndGame \/ ClockTick

SpecWeb == InitWeb /\ [][NextWeb]_vars

NextPhases == BeginPhaseTurn \/ ProcessEvent \/ FinishPass

SpecPhases == InitTimeline /\ [][NextPhases]_vars

NextTally == BeginOnlyTurn \/ ProcessEvent \/ FinishPass

SpecTally == InitTimeline /\ [][NextTally]_vars

NextTimeline == BeginTurn \/ ProcessEvent \/ FinishPass

SpecTimeline == InitTimeline /\ [][NextTimeline]_vars

InitBatch ==
    /\ BatchInit
    /\ POKEMON_DATA_AVAILABLE = TRUE
    /\ RegInit
    /\ MuIdle
    /\ TlIdle
    /\ FxIdle
    /\ WkIdle
    /\ WebIdle

NextBatch ==
    \/ MLProcessBattle
    \/ MLReturn
    \/ PrepareData
    \/ FEProcessBattle
    \/ FEReturn
    \/ EDAProcessBattle
    \/ EDAFinish

SpecBatch == InitBatch /\ [][NextBatch]_vars

InitWorkers ==
    /\ WkInit
    /\ ml_i = 0 /\ ml_features_list = <<>> /\ ml_status = "idle"
    /\ training = NotCalled
    /\ fe_i = 0 /\ fe_features = <<>> /\ fe_status = "idle"
    /\ eda_i = 0 /\ eda_battle_features = <<>> /\ eda_status = "idle"
    /\ POKEMON_DATA_AVAILABLE = TRUE
    /\ RegInit
    /\ MuIdle
    /\ TlIdle
    /\ FxIdle
    /\ WebIdle

NextWorkers ==
    \/ TakeMatch
    \/ WorkerCountEvents
    \/ WorkerReadPlayers
    \/ WorkerBuildDict

SpecWorkers == InitWorkers /\ [][NextWorkers]_vars

(***************************************************************************)
(* Claims                                                                  *)
(***************************************************************************)

\* C5: get_type_effectiveness is total: a pair absent from the table gives
\* exactly 1.0, a present pair gives the table's value, and every result is
\* one of 0.0, 0.5, 1.0, 2.0.
C5_EffectivenessTotal ==
    reg_call.op = "get_type_effectiveness" =>
        /\ reg_ret \in {Immune, Resisted, Neutral, SuperEffective}
        /\ <<reg_call.a, reg_call.b>> \notin DOMAIN TYPE_EFFECTIVENESS
              => reg_ret = Neutral
        /\ <<reg_call.a, reg_call.b>> \in DOMAIN TYPE_EFFECTIVENESS
              => reg_ret = TYPE_EFFECTIVENESS[<<reg_call.a, reg_call.b>>]

\* A lookup of a pair that the table does not hold has returned 1.0, and a
\* lookup of a pair it holds has returned another value.
C5_Witness ==
    /\ reg_call.op = "get_type_effectiveness"
    /\ reg_call.a = "Normal" /\ reg_call.b = UnknownType
    /\ reg_ret = Neutral

\* C3: the matchup score is sign-antisymmetric under the exchange of the two
\* rosters, and the p1_/p2_ super-effective and resisted counts are exchanged.
C3_ScoreAntisymmetric ==
    (mu_fwd.called /\ mu_rev.called) =>
        /\ mu_fwd.type_advantage_score = 0 - mu_rev.type_advantage_score
        /\ mu_fwd.p1_super_effective_count = mu_rev.p2_super_effective_count
        /\ mu_fwd.p2_super_effective_count = mu_rev.p1_super_effective_count
        /\ mu_fwd.p1_resisted_count = mu_rev.p2_resisted_count
        /\ mu_fwd.p2_resisted_count = mu_rev.p1_resisted_count

\* Both orders have been scored for rosters whose score is not zero, one of
\* them holding a species that is in no table.
C3_Witness ==
    /\ mu_fwd.called /\ mu_rev.called
    /\ mu_fwd.type_advantage_score > 0
    /\ mu_rev.type_advantage_score < 0
    /\ \E i \in DOMAIN mu_team1 : mu_team1[i] = UnknownSpecies

\* The matchup of C4: the maximum of the effectiveness over all attacker and
\* defender types.
C4_Matchup(a, d) ==
    Max({get_type_effectiveness(get_pokemon_types(a)[i], get_pokemon_types(d)[j]) :
            i \in DOMAIN get_pokemon_types(a), j \in DOMAIN get_pokemon_types(d)})

\* C4: with the registry loaded, every ordered pair whose matchup (the maximum
\* effectiveness over its type pairs) is >= 2.0 counts as super-effective, and
\* every pair whose matchup is <= 0.5 counts as resisted for the attacking side.
C4_PairClassification ==
    (POKEMON_DATA_AVAILABLE /\ mu_fwd.called) =>
        LET pairs == TeamPairs(mu_team1, mu_team2)
        IN  /\ mu_fwd.p1_super_effective_count =
                  Cardinality({p \in pairs :
                      C4_Matchup(mu_team1[p[1]], mu_team2[p[2]]) >= SuperEffective})
            /\ mu_fwd.p1_resisted_count =
                  Cardinality({p \in pairs :
                      C4_Matchup(mu_team1[p[1]], mu_team2[p[2]]) <= Resisted})
            /\ mu_fwd.p2_super_effective_count =
                  Cardinality({p \in pairs :
                      C4_Matchup(mu_team2[p[2]], mu_team1[p[1]]) >= SuperEffective})
            /\ mu_fwd.p2_resisted_count =
                  Cardinality({p \in pairs :
                      C4_Matchup(mu_team2[p[2]], mu_team1[p[1]]) <= Resisted})

\* The lower-cased types of the move and switch events of the whole match,
\* in order.
C7_Actions ==
    LET events == Flatten(tl_turns)
        lowered == [k \in DOMAIN events |-> Lower(GetTypeOrEmpty(events[k]))]
    IN  SelectSeq(lowered, LAMBDA t : t \in {STR_MOVE, STR_SWITCH})

\* The length of the longest run of t in actions.
C7_LongestRunOf(actions, t) ==
    Max({0} \cup
        {r[2] - r[1] + 1 : r \in
            {q \in (1..Len(actions)) \X (1..Len(actions)) :
                q[1] <= q[2] /\ \A k \in q[1]..q[2] : actions[k] = t}})

\* C7: after the full pass, consecutive_moves is the length of the longest
\* run of 'move' in the ordered sequence of the match's move/switch events
\* and consecutive_switches that of 'switch'; a run that ends at the last
\* such event is included.
C7_StreakMaxima ==
    tl_pc = "done" =>
        /\ tl_result.consecutive_moves = C7_LongestRunOf(C7_Actions, STR_MOVE)
        /\ tl_result.consecutive_switches = C7_LongestRunOf(C7_Actions, STR_SWITCH)

\* A finished pass whose longest run of moves is the one that ends at the
\* last event of the match, after a switch, across a turn boundary.
C7_Witness ==
    /\ tl_pc = "done"
    /\ Len(tl_turns) >= 2
    /\ C7_Actions = <<STR_SWITCH, STR_MOVE, STR_MOVE>>
    /\ tl_turns[Len(tl_turns)] # <<>>
    /\ tl_result.consecutive_moves = 2
    /\ tl_result.consecutive_switches = 1

\* C2: two match records that agree on battle id, rosters and winner and
\* differ in their turns and outcome reason get the same outcome from
\* extract_pre_battle_features, field for field.
C2_TurnsDoNotInterfere ==
    (/\ fx_pre.called
     /\ fx_other.called
     /\ fx_other.op = "varied"
     /\ fx_other_battle.battle_id = fx_battle.battle_id
     /\ fx_other_battle.teams = fx_battle.teams
     /\ fx_other_battle.winner = fx_battle.winner)
    => [op |-> "varied"] @@ fx_pre = fx_other

\* Both records were extracted, the second with a longer timeline and
\* another reason, and both gave a record.
C2_Witness ==
    /\ fx_pre.called /\ ~fx_pre.raised
    /\ fx_other.called /\ fx_other.op = "varied" /\ ~fx_other.raised
    /\ Len(fx_other_battle.turns) > Len(fx_battle.turns)
    /\ fx_other_battle.reason # fx_battle.reason
    /\ fx_battle.teams.p1.members # <<>>

\* The rational a is the negation of the rational b.
C6_Negated(a, b) == a[1] = 0 - b[1] /\ a[2] = b[2]

\* C6 as stated: exchanging the rosters negates level_advantage_p1,
\* hp_advantage_p1, bst_advantage_p1 and team_size_difference.
C6_AllAdvantagesNegate ==
    (/\ fx_pre.called /\ ~fx_pre.raised
     /\ fx_other.called /\ fx_other.op = "exchanged" /\ ~fx_other.raised)
    =>  /\ C6_Negated(fx_pre.value["level_advantage_p1"], fx_other.value["level_advantage_p1"])
        /\ fx_pre.value["hp_advantage_p1"] = 0 - fx_other.value["hp_advantage_p1"]
        /\ C6_Negated(fx_pre.value["bst_advantage_p1"], fx_other.value["bst_advantage_p1"])
        /\ fx_pre.value["team_size_difference"] = 0 - fx_other.value["team_size_difference"]

\* C6 as amended: the extraction of a match and of the match with its
\* rosters exchanged either both raise or both return; when they return,
\* level_advantage_p1, hp_advantage_p1 and bst_advantage_p1 are negated, and
\* team_size_difference is the absolute difference of the two team sizes,
\* never negative and the same for both.
C6_SignedAdvantagesNegate ==
    (fx_pre.called /\ fx_other.called /\ fx_other.op = "exchanged") =>
        /\ fx_pre.raised = fx_other.raised
        /\ ~fx_pre.raised =>
            /\ C6_Negated(fx_pre.value["level_advantage_p1"],
                          fx_other.value["level_advantage_p1"])
            /\ fx_pre.value["hp_advantage_p1"] = 0 - fx_other.value["hp_advantage_p1"]
            /\ C6_Negated(fx_pre.value["bst_advantage_p1"],
                          fx_other.value["bst_advantage_p1"])
            /\ fx_pre.value["team_size_difference"] =
                  Abs(fx_pre.value["p1_team_size"] - fx_pre.value["p2_team_size"])
            /\ fx_pre.value["team_size_difference"] =
                  fx_other.value["team_size_difference"]

\* A match whose rosters differ in size, level, hp and BST was extracted in
\* both orders.
C6_Witness ==
    /\ fx_pre.called /\ ~fx_pre.raised
    /\ fx_other.called /\ fx_other.op = "exchanged" /\ ~fx_other.raised
    /\ fx_pre.value["level_advantage_p1"][1] > 0
    /\ fx_pre.value["hp_advantage_p1"] > 0
    /\ fx_pre.value["bst_advantage_p1"][1] > 0
    /\ fx_pre.value["p1_team_size"] > fx_pre.value["p2_team_size"]
    /\ fx_pre.value["p2_team_size"] > 0

\* The roster fields of a side that are rationals; the others are integers.
C8_RationalFields == {"avg_level", "level_std", "avg_hp", "hp_std", "avg_bst", "bst_std",
                      "info_advantage"}

\* Every field of `features` named for side player_id is zero.
C8_SideAllZero(features, player_id, metrics) ==
    \A m \in metrics :
        /\ (player_id \o "_" \o m) \in DOMAIN features
        /\ features[player_id \o "_" \o m] = (IF m \in C8_RationalFields THEN RatZero ELSE 0)

C8_PreBattleMetrics ==
    {"team_size", "avg_level", "level_std", "total_hp", "avg_hp", "species_diversity",
     "type_diversity", "dual_type_count", "avg_bst", "bst_std", "min_bst", "max_bst",
     "legendary_count", "pseudo_legendary_count"}

C8_CompositionMetrics ==
    {"team_size", "avg_level", "level_std", "min_level", "max_level", "avg_hp", "hp_std",
     "total_hp", "species_diversity", "fully_revealed", "partially_revealed",
     "known_abilities", "known_items", "total_known_moves", "info_advantage"}

\* The roster of a side is empty, absent from the teams mapping or not a list.
C8_NoRoster(battle, player_id) ==
    \/ battle.teams[player_id].kind \in {"absent", "null"}
    \/ battle.teams[player_id].members = <<>>

\* C8: for a side whose roster is empty, absent or not a list, neither
\* extractor raises and every roster field of that side is 0.
C8_MissingRosterAllZero ==
    \A player_id \in {"p1", "p2"} :
        C8_NoRoster(fx_battle, player_id) =>
            /\ fx_pre.called =>
                /\ ~fx_pre.raised
                /\ C8_SideAllZero(fx_pre.value, player_id, C8_PreBattleMetrics)
            /\ (fx_other.called /\ fx_other.op = "composition") =>
                /\ ~fx_other.raised
                /\ C8_SideAllZero(fx_other.value, player_id, C8_CompositionMetrics)


\* The fields computed from the turn-by-turn timeline of a finished match.
C1_TimelineFields ==
    {"turns", "total_events", "move_events", "switch_events", "damage_events",
     "heal_events", "status_events", "effect_events", "events_per_turn",
     "early_game_intensity", "mid_game_intensity", "late_game_intensity",
     "move_switch_ratio", "consecutive_moves", "consecutive_switches",
     "action_diversity", "switch_ratio", "move_ratio", "damage_ratio",
     "battle_intensity"}

\* The roster fields a trainer consumes.
C1_RosterFields ==
    {side \o "_" \o metric :
        side \in {"p1", "p2"},
        metric \in {"team_size", "avg_level", "total_hp", "avg_hp", "species_diversity"}}

\* C1: no record of the list that extract_battle_features hands to training
\* holds a timeline field next to the roster features, and no timeline field
\* is among the columns prepare_data selects for the model.
C1_PredictiveRecordsHoldNoTimelineField ==
    /\ \A k \in DOMAIN ml_features_list :
          ~(/\ DOMAIN ml_features_list[k] \cap C1_TimelineFields # {}
            /\ DOMAIN ml_features_list[k] \cap C1_RosterFields # {})
    /\ (training # NotCalled /\ ~training.raised)
          => training.value \cap C1_TimelineFields = {}

\* The top-level fields every record must have.
C9_RequiredFields == {"battle_id", "metadata", "turns"}

C9_Lacking(battle) == battle.is_dict /\ ~(C9_RequiredFields \subseteq battle.keys)

\* How many of the first n records of the corpus have every required field.
C9_CompleteAmong(n) ==
    Cardinality({k \in 1..n : ~C9_Lacking(corpus[k])})

\* C9: a record without battle id, metadata or turns produces no feature
\* record: each job has at most as many rows as it has processed records
\* that have all three fields.
C9_IncompleteRecordsRejected ==
    /\ Len(ml_features_list) <= C9_CompleteAmong(ml_i)
    /\ Len(fe_features) <= C9_CompleteAmong(fe_i)
    /\ Len(eda_battle_features) <= C9_CompleteAmong(eda_i)

RECURSIVE C10_RowsOf(_, _)
\* The rows of the records of the corpus whose extraction does not raise,
\* in corpus order.
C10_RowsOf(extract(_), records) ==
    IF records = <<>> THEN <<>>
    ELSE LET row == extract(Head(records))
         IN  (IF row.raised THEN <<>> ELSE <<row.value>>)
                 \o C10_RowsOf(extract, Tail(records))

\* C10: no record makes a batch extraction raise, and a finished extraction
\* returns one row for each record whose extraction did not raise, in corpus
\* order.
C10_FailuresIsolated ==
    /\ ml_status # "raised"
    /\ fe_status # "raised"
    /\ ml_status = "returned" => ml_features_list = C10_RowsOf(BattleFeatures, corpus)
    /\ fe_status = "returned" => fe_features = C10_RowsOf(_extract_battle_features, corpus)


\* The events that have no 'type' key or a type of no category.
C11_Uncategorised == {EventWithoutType, Event(STR_CANT)}

\* How many of the events are uncategorised.
C11_CountIn(events) ==
    Cardinality({k \in DOMAIN events : events[k] \in C11_Uncategorised})

\* The events of the match processed so far.
C11_Processed ==
    LET n == Len(tl_turns)
    IN  IF tl_pc = "events"
        THEN Flatten(SubSeq(tl_turns, 1, n - 1)) \o SubSeq(tl_turns[n], 1, tl_i)
        ELSE Flatten(tl_turns)

C12_Counts ==
    {"total_turns", "total_events", "move_events", "switch_events",
     "damage_events", "heal_events", "status_events", "effect_events",
     "consecutive_moves", "consecutive_switches", "action_diversity"}

\* The fields of the returned dict that are quotients.
C12_Quotients ==
    {"events_per_turn", "early_game_intensity", "mid_game_intensity",
     "late_game_intensity", "move_switch_ratio"}

\* C12: the pass over an empty turn list returns 0 for every count, for every
\* phase intensity, for events-per-turn and the move/switch ratio, and none
\* of its quotients is a division by zero.
C12_EmptyTimelineAllZero ==
    (tl_pc = "done" /\ tl_turns = <<>>) =>
        /\ tl_result.called
        /\ \A f \in C12_Counts : tl_result[f] = 0
        /\ \A f \in C12_Quotients : tl_result[f] = RatZero

\* The pass over an empty turn list has returned.
C12_Witness ==
    /\ tl_pc = "done"
    /\ tl_turns = <<>>
    /\ tl_result.called
    /\ tl_result.total_turns = 0


\* The per-player roster-summary fields of the predictive record.
C13_RosterMetrics ==
    {"team_size", "avg_level", "level_std", "total_hp", "avg_hp",
     "species_diversity", "type_diversity", "dual_type_count", "avg_bst",
     "bst_std", "min_bst", "max_bst", "legendary_count", "pseudo_legendary_count"}

\* The field names of the predictive record.
C13_FieldNames ==
    {"battle_id", "winner"}
    \cup {side \o "_" \o metric : side \in {"p1", "p2"}, metric \in C13_RosterMetrics}
    \cup {"level_advantage_p1", "hp_advantage_p1", "bst_advantage_p1",
          "team_size_difference"}
    \cup {"type_advantage_score", "p1_super_effective_count",
          "p2_super_effective_count", "p1_resisted_count", "p2_resisted_count"}

\* The record has a list or nothing for each of its rosters.
C13_RostersListOrAbsent(battle) ==
    \A side \in {"p1", "p2"} : battle.teams[side].kind \in {"list", "absent"}

C14_InNoBucket(species) ==
    \A k \in DOMAIN POKEMON_TIERS : species \notin Range(POKEMON_TIERS[k].pokemon_list)

\* C14: a lookup on a species that its table does not hold returns the
\* default: ['Normal'] for the types, 400 for the base-stat total, 'RU' for
\* the tier, and such a species is neither legendary nor pseudo-legendary.
C14_UnregisteredGetsDefaults ==
    /\ (reg_call.op = "get_pokemon_types" /\ reg_call.a \notin DOMAIN POKEMON_TYPES)
          => reg_ret = <<"Normal">>
    /\ (reg_call.op = "get_pokemon_bst" /\ reg_call.a \notin DOMAIN POKEMON_BST)
          => reg_ret = 400
    /\ (reg_call.op = "get_pokemon_tier" /\ C14_InNoBucket(reg_call.a))
          => reg_ret = "RU"
    /\ (reg_call.op \in {"is_legendary", "is_pseudo_legendary"}
        /\ reg_call.a \notin DOMAIN POKEMON_BST)
          => reg_ret = FALSE

\* The base-stat total of a species that is in no table has been looked up.
C14_Witness ==
    /\ reg_call.op = "get_pokemon_bst"
    /\ reg_call.a = UnknownSpecies
    /\ reg_ret = 400

\* The buckets in priority order.
C20_Priority == <<"Uber", "OU", "UU">>

\* The buckets that hold the species.
C20_BucketsOf(species) ==
    {POKEMON_TIERS[k].tier : k \in {n \in DOMAIN POKEMON_TIERS :
                                        species \in Range(POKEMON_TIERS[n].pokemon_list)}}

C15_Label(winner) == IF winner \in {"p1", "p2"} THEN winner ELSE "None"

\* C15: the winner field of the predictive record, as the extractor returns
\* it and as the extraction loop appends it, is 'p1' or 'p2' exactly when
\* metadata.outcome.winner is, and null otherwise; and two records of
\* matches that differ only in their outcome differ in no other field.
C15_WinnerIsTheOnlyLabel ==
    /\ (fx_pre.called /\ ~fx_pre.raised)
          => fx_pre.value["winner"] = C15_Label(fx_battle.winner)
    /\ (fx_other.called /\ fx_other.op = "loop" /\ ~fx_other.raised) =>
          /\ fx_other.value["winner"] = C15_Label(fx_other_battle.winner)
          /\ (fx_pre.called /\ ~fx_pre.raised) =>
                \A f \in DOMAIN fx_pre.value \ {"winner"} :
                    fx_other.value[f] = fx_pre.value[f]


\* The outcome of a call, without the name of the operation.
C16_Outcome(call) == [f \in DOMAIN call \ {"op"} |-> call[f]]

C17_ConversionsIndependent ==
    /\ \A k \in DOMAIN wk_out :
          wk_out[k] # NotConverted => wk_out[k] = _extract_battle_features(corpus[k])
    /\ battles_cache = <<>>

\* Both matches of a corpus of two different flat records are converted, the
\* second match first.
C17_Witness ==
    /\ corpus = <<FlatRecord, OtherFlatRecord>>
    /\ wk_out[2] # NotConverted /\ ~wk_out[2].raised
    /\ wk_out[1] = NotConverted
    /\ wk_pc["w1"] = "players" /\ wk_match["w1"] = 1


\* C18: no step of a sequence of feature extractions, whether it returns or
\* raises, changes the match record it was given or the type lists
\* POKEMON_TYPES holds, which get_pokemon_types hands out.
C18_InputsUnchanged ==
    [][/\ fx_battle' = fx_battle
       /\ type_lists' = type_lists
       /\ type_lists' = POKEMON_TYPES]_vars

\* Three extractions have run on a match whose first roster has two
\* registered species, with the registry available, and the table's lists
\* are as loaded.
C18_Witness ==
    /\ POKEMON_DATA_AVAILABLE
    /\ fx_pre.called /\ ~fx_pre.raised
    /\ fx_other.called /\ fx_other.op = "exchanged"
    /\ fx_again.called /\ fx_again.op = "pre_battle"
    /\ fx_battle.teams.p1.members =
          <<Pokemon("Cinderace", 50, 80), Pokemon("Garchomp", 100, 108)>>
    /\ type_lists["Garchomp"] = <<"Dragon", "Ground">>


\* Every member of the roster is a registered species of the one given type.
C19_AllMonoType(team, type) ==
    /\ team.kind = "list"
    /\ team.members # <<>>
    /\ \A i \in DOMAIN team.members :
          /\ team.members[i].species \in DOMAIN POKEMON_TYPES
          /\ POKEMON_TYPES[team.members[i].species] = <<type>>

\* Every member of both rosters has the same base-stat total.
C19_SameBst(battle) ==
    \A a, b \in Range(battle.teams.p1.members) \cup Range(battle.teams.p2.members) :
        get_pokemon_bst(a.species) = get_pokemon_bst(b.species)

\* The match of the scenario: all Fire against all Grass, one BST.
C19_FireAgainstGrass(battle) ==
    /\ C19_AllMonoType(battle.teams.p1, "Fire")
    /\ C19_AllMonoType(battle.teams.p2, "Grass")
    /\ C19_SameBst(battle)

\* C19: with the registry loaded, the predictive record of a match whose first
\* roster is all mono-type Fire and whose second roster is all mono-type
\* Grass, every member of both having the same base-stat total, has
\* type_advantage_score > 0 and bst_advantage_p1 = 0.
C19_FireBeatsGrass ==
    (POKEMON_DATA_AVAILABLE /\ fx_pre.called /\ C19_FireAgainstGrass(fx_battle)) =>
        /\ ~fx_pre.raised
        /\ fx_pre.value["type_advantage_score"] > 0
        /\ fx_pre.value["bst_advantage_p1"] = RatZero

\* Two Cinderace against two Rillaboom were extracted with the registry
\* loaded: four super-effective pairs, and both averages 530.
C19_Witness ==
    /\ POKEMON_DATA_AVAILABLE
    /\ fx_pre.called /\ ~fx_pre.raised
    /\ fx_battle.teams.p1.members =
          <<Pokemon("Cinderace", 50, 80), Pokemon("Cinderace", 50, 80)>>
    /\ fx_battle.teams.p2.members =
          <<Pokemon("Rillaboom", 50, 80), Pokemon("Rillaboom", 50, 80)>>
    /\ fx_pre.value["type_advantage_score"] = 4
    /\ fx_pre.value["p1_avg_bst"] = Rat(530, 1)


\* The category the claim gives a (case-normalised) type.
C21_Category(event_type) ==
    IF event_type = STR_MOVE THEN "move_events"
    ELSE IF event_type = STR_SWITCH THEN "switch_events"
    ELSE IF Contains(event_type, STR_DAMAGE) THEN "damage_events"
    ELSE IF Contains(event_type, STR_HEAL) THEN "heal_events"
    ELSE IF Contains(event_type, STR_FAINT) \/ Contains(event_type, STR_STATUS)
    THEN "status_events"
    ELSE "effect_events"

\* C21: when the pass returns, each of the six counts is the number of events
\* whose type is of that category: 'move' -> move, 'switch' -> switch, a type
\* containing 'damage' -> damage, one containing 'heal' -> heal, faint and
\* status types -> status_events, every other type -> effect_events.
C21_ClassifiedByType ==
    tl_result.called =>
        LET events == Flatten(tl_turns)
        IN  \A category \in {"move_events", "switch_events", "damage_events",
                             "heal_events", "status_events", "effect_events"} :
                tl_result[category] =
                    Cardinality({k \in DOMAIN events :
                        C21_Category(Lower(GetTypeOrEmpty(events[k]))) = category})


\* The number of events of the turns read so far whose index is in [from, to).
C22_EventsOfTurns(from, to) ==
    Len(Flatten([k \in DOMAIN tl_turns |->
                    IF from <= k - 1 /\ k - 1 < to THEN tl_turns[k] ELSE <<>>]))

\* C22: at every point of the pass the early, mid and late accumulators hold
\* the events of the turns read so far with index < 3, with 3 <= index < 8
\* and with index >= 8, and the three add up to total_events.
C22_PhaseByTurnIndex ==
    /\ tl_acc.early_game_events = C22_EventsOfTurns(0, 3)
    /\ tl_acc.mid_game_events = C22_EventsOfTurns(3, 8)
    /\ tl_acc.late_game_events = C22_EventsOfTurns(8, Len(tl_turns))
    /\ tl_acc.early_game_events + tl_acc.mid_game_events + tl_acc.late_game_events
          = tl_acc.total_events

\* A pass over nine turns has returned, with events in each of the phases.
C22_Witness ==
    /\ tl_result.called
    /\ Len(tl_turns) = 9
    /\ tl_acc.early_game_events > 0
    /\ tl_acc.mid_game_events > 0
    /\ tl_acc.late_game_events > 0


\* quotient is count / divisor when the divisor is positive, count / 1 when
\* it is not.
C23_IsQuotient(quotient, count, divisor) ==
    /\ quotient[2] >= 1
    /\ IF divisor > 0
       THEN quotient[1] * divisor = quotient[2] * count
       ELSE quotient[1] = quotient[2] * count

\* The number of turns of a match of total_turns turns with index in [from, to).
C23_TurnsOfPhase(total_turns, from, to) ==
    Cardinality({idx \in 0..(total_turns - 1) : from <= idx /\ idx < to})

\* C23: in the returned dict the intensity of each phase is the phase's event
\* count over the number of turns of that phase (min(T,3), min(T-3,5), T-8)
\* and 0 for a phase with no turns, events_per_turn is total_events over T,
\* move_switch_ratio is move_events over switch_events, and a divisor that
\* would be 0 is 1.
C23_DivisorsAreTrueCounts ==
    tl_result.called =>
        LET total_turns == Len(tl_turns)
            early == C23_TurnsOfPhase(total_turns, 0, 3)
            mid == C23_TurnsOfPhase(total_turns, 3, 8)
            late == C23_TurnsOfPhase(total_turns, 8, total_turns)
        IN  /\ early = Min({total_turns, 3})
            /\ total_turns > 3 => mid = Min({total_turns - 3, 5})
            /\ total_turns > 8 => late = total_turns - 8
            /\ C23_IsQuotient(tl_result.events_per_turn,
                              tl_result.total_events, total_turns)
            /\ C23_IsQuotient(tl_result.early_game_intensity,
                              tl_acc.early_game_events, early)
            /\ C23_IsQuotient(tl_result.mid_game_intensity,
                              tl_acc.mid_game_events, mid)
            /\ C23_IsQuotient(tl_result.late_game_intensity,
                              tl_acc.late_game_events, late)
            /\ C23_IsQuotient(tl_result.move_switch_ratio,
                              tl_result.move_events, tl_result.switch_events)
            /\ mid = 0 => tl_result.mid_game_intensity = RatZero
            /\ late = 0 => tl_result.late_game_intensity = RatZero

\* A pass over nine turns has returned ratios that are not whole numbers, and
\* the one late turn has two events.
C23_Witness ==
    /\ tl_result.called
    /\ Len(tl_turns) = 9
    /\ tl_result.events_per_turn[2] > 1
    /\ tl_result.mid_game_intensity[2] > 1
    /\ tl_result.move_switch_ratio[2] > 1
    /\ tl_result.late_game_intensity = <<2, 1>>


\* C24: action_diversity is the number of distinct type values of the events
\* of the match, taken as the tally takes them (the value of
\* event.get('type', '') in lower case).
C24_DiversityOnTalliedType ==
    tl_result.called =>
        LET events == Flatten(tl_turns)
        IN  tl_result.action_diversity =
                Cardinality({Lower(GetTypeOrEmpty(events[k])) : k \in DOMAIN events})


\* The BSTs of the entries of a roster that name a species.
C25_BstOfSpecies(team) ==
    LET named == SelectSeq(team.members, LAMBDA p : p.species # "")
    IN  [k \in DOMAIN named |-> get_pokemon_bst(named[k].species)]

\* The bounds of C25 on the fields of one player, and the two counts when
\* the registry is loaded.
C25_RosterBounds(value, player_id, team) ==
    LET field(metric) == value[player_id \o "_" \o metric]
        bsts == C25_BstOfSpecies(team)
    IN  /\ 0 <= field("pseudo_legendary_count")
        /\ field("pseudo_legendary_count") <= field("legendary_count")
        /\ field("legendary_count") <= field("team_size")
        /\ field("species_diversity") <= field("team_size")
        /\ field("dual_type_count") <= field("team_size")
        /\ field("min_bst") <= field("max_bst")
        /\ POKEMON_DATA_AVAILABLE =>
            /\ field("legendary_count") =
                  Cardinality({k \in DOMAIN bsts : bsts[k] >= 580})
            /\ field("pseudo_legendary_count") =
                  Cardinality({k \in DOMAIN bsts : bsts[k] = 600})

\* C25: in every predictive record, for each roster, legendary_count is the
\* number of roster species with BST >= 580 and pseudo_legendary_count the
\* number with BST = 600 (registry loaded), 0 <= pseudo_legendary_count <=
\* legendary_count <= team_size, species_diversity and dual_type_count are at
\* most team_size, and min_bst <= max_bst.
C25_RosterCountsBounded ==
    (fx_pre.called /\ ~fx_pre.raised) =>
        /\ C25_RosterBounds(fx_pre.value, "p1", TeamsGet(fx_battle, "p1"))
        /\ C25_RosterBounds(fx_pre.value, "p2", TeamsGet(fx_battle, "p2"))

\* A roster of Mewtwo and Garchomp against Cinderace and an entry without
\* species was extracted: two legendaries of which one is a pseudo-legendary.
C25_Witness ==
    /\ POKEMON_DATA_AVAILABLE
    /\ fx_pre.called /\ ~fx_pre.raised
    /\ fx_pre.value["p1_legendary_count"] = 2
    /\ fx_pre.value["p1_pseudo_legendary_count"] = 1
    /\ fx_pre.value["p1_min_bst"] < fx_pre.value["p1_max_bst"]
    /\ fx_pre.value["p2_team_size"] = 2
    /\ fx_pre.value["p2_species_diversity"] = 1
    /\ fx_pre.value["p2_legendary_count"] = 0


\* The sum of the six category counters.
C26_Categorised(acc) ==
    acc.move_events + acc.switch_events + acc.damage_events
        + acc.heal_events + acc.status_events + acc.effect_events

\* C26: every processed event is in exactly one category counter: within a
\* turn the six counters add up to total_events less the events of the turn
\* still to be processed, so after each fully processed turn and at the end
\* of the pass they add up to total_events, in the locals and in the
\* returned dict.
C26_CategoriesPartitionEvents ==
    /\ tl_pc = "events" =>
          C26_Categorised(tl_acc) =
              tl_acc.total_events - (Len(tl_turns[Len(tl_turns)]) - tl_i)
    /\ tl_pc \in {"turns", "done"} => C26_Categorised(tl_acc) = tl_acc.total_events
    /\ tl_result.called => C26_Categorised(tl_result) = tl_result.total_events

\* A pass over two turns has returned with a move, a damage event and an
\* event of no category counted.
C26_Witness ==
    /\ tl_result.called
    /\ Len(tl_turns) = 2
    /\ tl_result.move_events = 1
    /\ tl_result.damage_events = 1
    /\ tl_result.effect_events = 1
    /\ tl_result.total_events = 3


\* C27: throughout the pass consecutive_moves <= move_events and
\* consecutive_switches <= switch_events; in the returned dict
\* consecutive_moves >= 1 when move_events >= 1, and consecutive_moves =
\* move_events when the match has no switch event, whatever other events and
\* turn boundaries lie between the moves.
C27_StreaksWithinCounts ==
    /\ tl_acc.consecutive_moves <= tl_acc.move_events
    /\ tl_acc.consecutive_switches <= tl_acc.switch_events
    /\ tl_result.called =>
        /\ tl_result.consecutive_moves <= tl_result.move_events
        /\ tl_result.consecutive_switches <= tl_result.switch_events
        /\ tl_result.move_events >= 1 => tl_result.consecutive_moves >= 1
        /\ tl_result.switch_events = 0 =>
              tl_result.consecutive_moves = tl_result.move_events

\* A pass has returned over a move in one turn and a damage event and a move
\* in the next: one streak of two moves.
C27_Witness ==
    /\ tl_result.called
    /\ tl_turns = <<<<Event(STR_MOVE)>>,
                    <<Event(<<"-">> \o STR_DAMAGE), Event(STR_MOVE)>>>>
    /\ tl_result.consecutive_moves = 2
    /\ tl_result.move_events = 2


\* C28: the outputs of calculate_team_type_advantage(A, B): for each side the
\* super-effective and resisted counts together are at most |A|*|B|, the
\* score lies in [-2*|A|*|B|, 2*|A|*|B|], and all five outputs are 0 when A
\* or B is empty.
C28_CountsWithinPairs ==
    mu_fwd.called =>
        LET pairs == Len(mu_team1) * Len(mu_team2)
        IN  /\ mu_fwd.p1_super_effective_count >= 0
            /\ mu_fwd.p1_resisted_count >= 0
            /\ mu_fwd.p2_super_effective_count >= 0
            /\ mu_fwd.p2_resisted_count >= 0
            /\ mu_fwd.p1_super_effective_count + mu_fwd.p1_resisted_count <= pairs
            /\ mu_fwd.p2_super_effective_count + mu_fwd.p2_resisted_count <= pairs
            /\ mu_fwd.type_advantage_score >= 0 - 2 * pairs
            /\ mu_fwd.type_advantage_score <= 2 * pairs
            /\ pairs = 0 =>
                /\ mu_fwd.type_advantage_score = 0
                /\ mu_fwd.p1_super_effective_count = 0
                /\ mu_fwd.p2_super_effective_count = 0
                /\ mu_fwd.p1_resisted_count = 0
                /\ mu_fwd.p2_resisted_count = 0

\* Two Blastoise were scored against two Cinderace with the registry loaded:
\* each of the four pairs is super-effective for the first side.
C28_Witness ==
    /\ POKEMON_DATA_AVAILABLE
    /\ mu_fwd.called
    /\ mu_team1 = <<"Blastoise", "Blastoise">>
    /\ mu_team2 = <<"Cinderace", "Cinderace">>
    /\ mu_fwd.p1_super_effective_count = 4
    /\ mu_fwd.type_advantage_score = 4


\* C29: a start_game that answers 200 assigns an id that is not a key of
\* game_sessions at that moment, so it replaces no session that is held.
C29_SessionIdsUnique ==
    [][(served' = served + 1 /\ resp'.op = "start_game" /\ resp'.status = 200) =>
          resp'.session_id \notin DOMAIN game_sessions]_vars

\* The step answers a make_move or end_game request.
C30_MoveOrEnd ==
    served' = served + 1 /\ resp'.op \in {"make_move", "end_game"}

\* A successful end_game removes the session from game_sessions.
C30_EndRemoves ==
    (C30_MoveOrEnd /\ resp'.op = "end_game" /\ resp'.status = 200) =>
        /\ resp'.session_id \in DOMAIN game_sessions
        /\ DOMAIN game_sessions' = DOMAIN game_sessions \ {resp'.session_id}

\* After a successful end_game every make_move or end_game for that id
\* answers 404 and changes no state.
C30_EndedStaysEnded ==
    (C30_MoveOrEnd /\ resp'.session_id \in ended) =>
        /\ resp'.status = 404
        /\ UNCHANGED <<game_sessions, ended>>

\* make_move or end_game on an id that was never started answers 404 and
\* creates no session.
C30_NeverStarted ==
    (C30_MoveOrEnd /\ resp'.session_id \notin DOMAIN game_sessions \cup ended) =>
        /\ resp'.status = 404
        /\ UNCHANGED <<game_sessions, ended>>

\* A successful make_move appends two history entries, human then ai, both
\* with the turn before the move, adds 1 to the session's turn and touches
\* no other session.
C30_MoveAppendsTwo ==
    (C30_MoveOrEnd /\ resp'.op = "make_move" /\ resp'.status = 200) =>
        LET id == resp'.session_id
            before == game_sessions[id]
            after == game_sessions'[id]
            n == Len(before.moves_history)
        IN  /\ DOMAIN game_sessions' = DOMAIN game_sessions
            /\ \A other \in DOMAIN game_sessions \ {id} :
                  game_sessions'[other] = game_sessions[other]
            /\ Len(after.moves_history) = n + 2
            /\ SubSeq(after.moves_history, 1, n) = before.moves_history
            /\ after.moves_history[n + 1].player = "human"
            /\ after.moves_history[n + 2].player = "ai"
            /\ after.moves_history[n + 1].turn = before.turn
            /\ after.moves_history[n + 2].turn = before.turn
            /\ after.turn = before.turn + 1

\* C30: the session lifecycle: a successful end_game removes the session,
\* after which every make_move or end_game for that id answers 404 and
\* changes no state; a make_move or end_game for an id never started answers
\* 404 and creates no session; a successful make_move appends exactly two
\* history entries (human, then ai, both with the pre-move turn) and adds 1
\* to the session's turn.
C30_SessionLifecycle ==
    [][/\ C30_EndRemoves
       /\ C30_EndedStaysEnded
       /\ C30_NeverStarted
       /\ C30_MoveAppendsTwo]_vars

====
